---- MODULE Spec2Model ----
(***************************************************************************)
(* Model of the vector-indexing and semantic-search subsystem of serena:  *)
(* QdrantClient (src/src/serena/qdrant_client.py) and ProjectIndexer      *)
(* (src/src/serena/project_indexer.py).                                   *)
(*                                                                         *)
(* Every network request and every container command of the client is one *)
(* step; its outcome (answered, non-2xx answer, transport failure, applied *)
(* with the answer lost) is chosen by the environment.  The vector store,  *)
(* the embedding provider and the container runtime are external; they are *)
(* modelled by the Store*, EmbedOf and docker definitions.                 *)
(***************************************************************************)
EXTENDS Integers, Sequences, FiniteSets, TLC

VARIABLES
    cfg,      \* the QdrantConfig the clients were constructed with
    host,     \* the host: whether the service answers, and the containers on it
    store,    \* the vector store: per collection, whether it exists and its points
    store0,   \* the store as it was before the first call (history)
    cl,       \* per client: the frame of the call in progress (or just finished)
    hist      \* per client: the frames of its earlier, completed calls

vars == <<cfg, host, store, store0, cl, hist>>

-----------------------------------------------------------------------------
(* Bounds of the model *)

\* longest document list handed to index_documents
MaxDocs == 3
\* largest batch_size configured
MaxBatch == 2
\* longest document list indexed before a search
MaxSearchDocs == 2
\* most calls in a sequence of collection operations
MaxCalls == 2
\* longest project name enumerated (the names of the tests are added)
MaxNameLen == 3
\* most source files of a project
MaxFiles == 3
\* most source files of each of two projects indexed side by side
MaxSharedFiles == 1
\* longest document list indexed again
MaxRerunDocs == 2
\* most fields of a configuration set to another value than the default
MaxCustom == 2
\* longest document list indexed by a client after its construction
MaxLifeDocs == 1
\* most source files of a project that is indexed twice
MaxReindexFiles == 2
\* longest document list of each of two concurrent index_documents calls
MaxConcurrentDocs == 2

(* Program constants *)

\* QdrantConfig.max_search_results
DefaultMaxSearchResults == 20
\* QdrantConfig.search_score_threshold, in hundredths (0.80)
SearchScoreThreshold == 80
\* QdrantConfig.batch_size
DefaultBatchSize == 100
\* QdrantConfig.model_dimension
DefaultModelDimension == 2560
\* max_wait of _start_qdrant_docker: the seconds (and probes) waited for health
MaxWait == 30

Procs == {1, 2}
Colls == {"serena_project_p"}

Min(a, b) == IF a <= b THEN a ELSE b

SeqsUpTo(S, n) == UNION {[1..k -> S] : k \in 0..n}

\* Python's {**a, **b}: the entries of b win
Merge(a, b) == [k \in DOMAIN a \cup DOMAIN b |-> IF k \in DOMAIN b THEN b[k] ELSE a[k]]

EmptyMap == [k \in {} |-> ""]

-----------------------------------------------------------------------------
(* Inputs: documents *)

NoMeta == EmptyMap
FileMeta == [file_path |-> "a.sol"]
TextMeta == [text |-> "shadow"]

DocUniverse ==
    { [id |-> 0, text |-> "alpha beta", metadata |-> NoMeta],
      [id |-> 1, text |-> "gamma",      metadata |-> FileMeta],
      [id |-> 0, text |-> "gamma",      metadata |-> NoMeta],
      [id |-> 1, text |-> "alpha",      metadata |-> NoMeta],
      [id |-> 1, text |-> "alpha beta", metadata |-> TextMeta] }

BatchSizes == (-1)..MaxBatch

-----------------------------------------------------------------------------
(* The embedding provider (external): a deterministic stub.  "alpha" and   *)
(* "alpha beta" embed to the same vector.                                  *)

EmbedOf(text) ==
    CASE text = "alpha"      -> "v1"
      [] text = "alpha beta" -> "v1"
      [] OTHER               -> "v2"

\* cosine similarity in hundredths
Cosine(u, v) == IF u = v THEN 100 ELSE 50

-----------------------------------------------------------------------------
(* The vector store (external) *)

NoCollection == [exists |-> FALSE, pts |-> {}]

\* insert-or-replace by id, the points applied in order
RECURSIVE StoreUpsert(_, _)
StoreUpsert(pts, new) ==
    IF new = <<>> THEN pts
    ELSE StoreUpsert({q \in pts : q.id # Head(new).id} \cup {Head(new)}, Tail(new))

OldPoint == [id |-> 1, vector |-> "v1", payload |-> [text |-> "old"]]

InitStores ==
    { [c \in Colls |-> NoCollection],
      [c \in Colls |-> [exists |-> TRUE, pts |-> {}]],
      [c \in Colls |-> [exists |-> TRUE, pts |-> {OldPoint}]] }

\* Outcomes of a request, chosen by the environment:
\*   ok         the service processes the request and its answer arrives
\*   http_err   the service answers non-2xx without processing the request
\*   transport  the request fails in transport (connection error, timeout)
\*   lost       the service processes the request, the answer is lost (timeout)
ReadOutcomes == {"ok", "http_err", "transport"}
WriteOutcomes == {"ok", "http_err", "transport", "lost"}

Req(kind, out) == [kind |-> kind, out |-> out, pts |-> <<>>, text |-> "", vector |-> "", limit |-> 0, threshold |-> 0]

-----------------------------------------------------------------------------
(* Client frames *)

NoLimit == <<>>

Idle ==
    [pc |-> "idle", op |-> "none", coll |-> "", docs |-> <<>>, text |-> "",
     limit |-> NoLimit, i |-> 0, j |-> 0, points |-> <<>>, qvec |-> "",
     result |-> "none", ret |-> <<>>, reqs |-> <<>>, existed |-> FALSE,
     waited |-> 0, name |-> <<>>, ident |-> <<>>,
     inner |-> "none", inner_ret |-> <<>>, files |-> <<>>, dict |-> <<>>]

\* the method probes the service before it does anything else
NewCallProbesFirst(op, c) ==
    [Idle EXCEPT !.pc = "start", !.op = op, !.coll = c, !.existed = store[c].exists,
                 !.reqs = <<Req("GET_healthz", "ok")>>]

\* a new frame; existed records whether the collection existed when the call began
NewCall(op, c) ==
    [Idle EXCEPT !.pc = "start", !.op = op, !.coll = c, !.existed = store[c].exists]

Finish(f, result) == [f EXCEPT !.pc = "done", !.result = result]

\* a failure of index_documents is logged and not raised
index_project_files_swallows(f, result) == Finish([f EXCEPT !.inner = result], "ok")

\* "self.qdrant_client.index_documents(...)" returned, or
\* "except Exception as e: log.error(...); raise"
index_project_files_return(f, result) == Finish([f EXCEPT !.inner = result], result)

\* index_documents returns or raises, to its caller or through the controller
IndexReturn(f, result) ==
    IF f.op = "index_project_files" THEN index_project_files_return(f, result)
    ELSE Finish(f, result)

Logged(f, r) == [f EXCEPT !.reqs = Append(@, r)]

IndexDone(f) == f.op = "index_documents" /\ f.pc = "done"

CanStart(p) == cl[p].pc \in {"idle", "done"}

Archive(p) == IF cl[p].pc = "done" THEN Append(hist[p], cl[p]) ELSE hist[p]

-----------------------------------------------------------------------------
(* QdrantClient.collection_exists: True only on a 200 answer *)

collection_exists(c, out) == out = "ok" /\ store[c].exists

(* QdrantClient.index_documents *)

\* "if not documents: return"
IndexEntryNoEmptyCheck(f) == [f EXCEPT !.pc = "idx_exists"]

IndexEntry(f) ==
    IF f.docs = <<>> THEN IndexReturn(f, "ok") ELSE [f EXCEPT !.pc = "idx_exists"]

\* "for i in range(0, len(documents), batch_size)": the step of the range
NextStartSkipsOne(i, B) == i + B + 1

NextStart(i, B) == i + B

\* the batch is cut to its first document
BatchLenIsOne(f) == 1

\* "batch = documents[i : i + batch_size]": the length of the slice
BatchLen(f) == Min(cfg.batch_size, Len(f.docs) - f.i)

\* entering the batch loop once the collection is ensured: range() raises
\* ValueError for a zero step and is empty for a negative one
LoopEntry(f) ==
    CASE cfg.batch_size = 0 -> IndexReturn(f, "error")
      [] cfg.batch_size < 0 \/ Len(f.docs) = 0 -> IndexReturn(f, "ok")
      [] OTHER -> [f EXCEPT !.pc = "idx_embed", !.i = 0, !.j = 0, !.points = <<>>]

\* the next iteration of the batch loop after a successful upsert
LoopNext(f) ==
    LET n == NextStart(f.i, cfg.batch_size) IN
    IF n >= Len(f.docs) THEN IndexReturn(f, "ok")
    ELSE [f EXCEPT !.pc = "idx_embed", !.i = n, !.j = 0, !.points = <<>>]

\* "point = {id, vector, payload: {text, **metadata}}"
MakePoint(doc, embedding) ==
    [id |-> doc.id, vector |-> embedding,
     payload |-> Merge([text |-> doc.text], doc.metadata)]

\* create_collection returns to its caller
CreateReturn(f) ==
    IF f.op = "create_collection" THEN Finish(f, "ok") ELSE LoopEntry(f)

IndexStart(p, c, docs) ==
    /\ CanStart(p)
    /\ cl' = [cl EXCEPT ![p] = IndexEntry([NewCall("index_documents", c) EXCEPT !.docs = docs])]
    /\ hist' = [hist EXCEPT ![p] = Archive(p)]
    /\ UNCHANGED <<cfg, host, store, store0>>

\* "if not self.collection_exists(collection_name): self.create_collection(...)"
IdxExists(p) ==
    /\ cl[p].pc = "idx_exists"
    /\ \E out \in ReadOutcomes :
        LET f == Logged(cl[p], Req("GET_collection", out)) IN
        cl' = [cl EXCEPT ![p] =
                 IF collection_exists(f.coll, out) THEN LoopEntry(f)
                 ELSE [f EXCEPT !.pc = "cc_exists"]]
    /\ UNCHANGED <<cfg, host, store, store0, hist>>

(* QdrantClient.create_collection *)

CreateStart(p, c) ==
    /\ CanStart(p)
    /\ cl' = [cl EXCEPT ![p] = [NewCall("create_collection", c) EXCEPT !.pc = "cc_exists"]]
    /\ hist' = [hist EXCEPT ![p] = Archive(p)]
    /\ UNCHANGED <<cfg, host, store, store0>>

\* the create request is sent whatever the existence check said
CreateCheckAlwaysPuts(f, exists) == [f EXCEPT !.pc = "cc_put"]

\* "if self.collection_exists(collection_name): return"
CreateCheck(f, exists) == IF exists THEN CreateReturn(f) ELSE [f EXCEPT !.pc = "cc_put"]

CcExists(p) ==
    /\ cl[p].pc = "cc_exists"
    /\ \E out \in ReadOutcomes :
        LET f == Logged(cl[p], Req("GET_collection", out)) IN
        cl' = [cl EXCEPT ![p] = CreateCheck(f, collection_exists(f.coll, out))]
    /\ UNCHANGED <<cfg, host, store, store0, hist>>

\* a failed create request is ignored and the caller goes on
CreateFailedIgnored(f) == CreateReturn(f)

\* "except Exception as e: raise QdrantClientError(Failed to create collection)"
CreateFailed(f) == IndexReturn(f, "error")

\* the store creates a collection that does not exist and rejects (non-2xx)
\* the creation of one that does
CcPut(p) ==
    /\ cl[p].pc = "cc_put"
    /\ \E out \in WriteOutcomes :
        LET f == Logged(cl[p], Req("PUT_collection", out))
            c == f.coll
            processed == out \in {"ok", "lost"}
            created == processed /\ ~store[c].exists
        IN  /\ store' = IF created
                        THEN [store EXCEPT ![c] = [exists |-> TRUE, pts |-> {}]]
                        ELSE store
            /\ cl' = [cl EXCEPT ![p] =
                        IF out = "ok" /\ created THEN CreateReturn(f)
                        ELSE CreateFailed(f)]
    /\ UNCHANGED <<cfg, host, store0, hist>>

(* QdrantClient.generate_embedding inside the batch loop *)

\* a failed embedding is tried again instead of raised
EmbedFailedRetries(f) == [f EXCEPT !.pc = "idx_embed"]

\* generate_embedding raises QdrantClientError, which index_documents lets through
EmbedFailed(f) == IndexReturn(f, "error")

\* every embedding request of a batch sends the batch's first document
BatchDocIsFirstOfBatch(f) == f.docs[f.i + 1]

\* "for doc in batch": the document whose text is embedded next
BatchDoc(f) == f.docs[f.i + f.j + 1]

IdxEmbed(p) ==
    /\ cl[p].pc = "idx_embed"
    /\ \E out \in ReadOutcomes :
        LET doc == BatchDoc(cl[p])
            f == Logged(cl[p], [Req("POST_embeddings", out) EXCEPT !.text = doc.text])
        IN  cl' = [cl EXCEPT ![p] =
                     IF out = "ok"
                     THEN [f EXCEPT !.points = Append(@, MakePoint(doc, EmbedOf(doc.text))),
                                    !.j = @ + 1,
                                    !.pc = IF f.j + 1 = BatchLen(f) THEN "idx_upsert" ELSE "idx_embed"]
                     ELSE EmbedFailed(f)]
    /\ UNCHANGED <<cfg, host, store, store0, hist>>

\* the upsert of one batch: one PUT to the points endpoint
IdxUpsert(p) ==
    /\ cl[p].pc = "idx_upsert"
    /\ \E out \in WriteOutcomes :
        LET f == Logged(cl[p], [Req("PUT_points", out) EXCEPT !.pts = cl[p].points])
            c == f.coll
            applied == out \in {"ok", "lost"} /\ store[c].exists
        IN  /\ store' = IF applied
                        THEN [store EXCEPT ![c].pts = StoreUpsert(@, f.points)]
                        ELSE store
            /\ cl' = [cl EXCEPT ![p] =
                        IF out = "ok" /\ applied THEN LoopNext(f) ELSE IndexReturn(f, "error")]
    /\ UNCHANGED <<cfg, host, store0, hist>>

-----------------------------------------------------------------------------
(* The vector store's search (external): the points scoring at least the   *)
(* threshold, by descending score, cut to the limit.  The order of equal   *)
(* scores is the store's choice.                                           *)

Hit(q, v) == [id |-> q.id, score |-> Cosine(q.vector, v), payload |-> q.payload]

StoreSearch(pts, v, limit, threshold) ==
    LET hits == {Hit(q, v) : q \in {x \in pts : Cosine(x.vector, v) >= threshold}}
        n == Cardinality(hits)
        ranked == {r \in [1..n -> hits] :
                     /\ \A a, b \in 1..n : a # b => r[a] # r[b]
                     /\ \A a, b \in 1..n : a < b => r[a].score >= r[b].score}
    IN  {SubSeq(r, 1, Min(limit, n)) : r \in ranked}

(* QdrantClient.search *)

QueryTexts == {"alpha", "gamma"}
Limits == {NoLimit, <<0>>, <<1>>}

\* the existence check is skipped
SearchEntryNoCheck(f) == [f EXCEPT !.pc = "s_embed"]

SearchEntry(f) == [f EXCEPT !.pc = "s_exists"]

\* "limit = limit or self.config.max_search_results"
EffectiveLimit(limit) ==
    IF limit = NoLimit \/ limit[1] = 0 THEN cfg.max_search_results ELSE limit[1]

\* the query is embedded as another text
QueryVectorOfOtherText(text) == EmbedOf(IF text = "gamma" THEN "alpha" ELSE "gamma")

\* "query_embedding = self.generate_embedding(query_text)"
QueryVector(text) == EmbedOf(text)

(* ProjectIndexer.search_in_project: the try/except around the search *)

\* the failure of the search is raised to the caller of the controller
search_in_project_reraises(f, result) ==
    Finish([f EXCEPT !.inner = result, !.inner_ret = f.ret], result)

\* "return results" / "except Exception as e: log.error(...); return []"
search_in_project_return(f, result) ==
    Finish([f EXCEPT !.inner = result, !.inner_ret = f.ret,
                     !.ret = IF result = "ok" THEN f.ret ELSE <<>>], "ok")

\* the search returns or raises, to its caller or through the controller
SearchReturn(f, result) ==
    IF f.op = "search_in_project" THEN search_in_project_return(f, result)
    ELSE Finish(f, result)

\* "self.qdrant_client.search(self.collection_name, query, limit=limit)"
SearchInProjectStart(p, c, text, limit) ==
    /\ CanStart(p)
    /\ cl' = [cl EXCEPT ![p] =
                SearchEntry([NewCall("search_in_project", c) EXCEPT !.text = text, !.limit = limit])]
    /\ hist' = [hist EXCEPT ![p] = Archive(p)]
    /\ UNCHANGED <<cfg, host, store, store0>>

SearchStart(p, c, text, limit) ==
    /\ CanStart(p)
    /\ cl' = [cl EXCEPT ![p] =
                SearchEntry([NewCall("search", c) EXCEPT !.text = text, !.limit = limit])]
    /\ hist' = [hist EXCEPT ![p] = Archive(p)]
    /\ UNCHANGED <<cfg, host, store, store0>>

\* "if not self.collection_exists(collection_name): return []"
SExists(p) ==
    /\ cl[p].pc = "s_exists"
    /\ \E out \in ReadOutcomes :
        LET f == Logged(cl[p], Req("GET_collection", out)) IN
        cl' = [cl EXCEPT ![p] =
                 IF collection_exists(f.coll, out) THEN [f EXCEPT !.pc = "s_embed"]
                 ELSE SearchReturn([f EXCEPT !.ret = <<>>], "ok")]
    /\ UNCHANGED <<cfg, host, store, store0, hist>>

SEmbed(p) ==
    /\ cl[p].pc = "s_embed"
    /\ \E out \in ReadOutcomes :
        LET f == Logged(cl[p], [Req("POST_embeddings", out) EXCEPT !.text = cl[p].text]) IN
        cl' = [cl EXCEPT ![p] =
                 IF out = "ok" THEN [f EXCEPT !.qvec = QueryVector(f.text), !.pc = "s_post"]
                 ELSE SearchReturn(f, "error")]
    /\ UNCHANGED <<cfg, host, store, store0, hist>>

\* the vector search: the store answers 404 for a collection that does not exist
SPost(p) ==
    /\ cl[p].pc = "s_post"
    /\ \E out \in ReadOutcomes :
        LET lim == EffectiveLimit(cl[p].limit)
            thr == cfg.search_score_threshold
            f == Logged(cl[p], [Req("POST_search", out) EXCEPT
                                  !.vector = cl[p].qvec, !.limit = lim, !.threshold = thr])
            c == f.coll
        IN  IF out = "ok" /\ store[c].exists
            THEN \E r \in StoreSearch(store[c].pts, f.qvec, lim, thr) :
                    cl' = [cl EXCEPT ![p] = SearchReturn([f EXCEPT !.ret = r], "ok")]
            ELSE cl' = [cl EXCEPT ![p] = SearchReturn(f, "error")]
    /\ UNCHANGED <<cfg, host, store, store0, hist>>

-----------------------------------------------------------------------------
(* QdrantClient.delete_collection and ProjectIndexer.delete_project_index *)

\* whether requests.delete or raise_for_status raised: the store answers 404
\* for a collection that does not exist
DeleteRaised(out, existed) == out # "ok" \/ ~existed

\* the failure of the DELETE request is raised to the caller
delete_collection_reraises(raised) == IF raised THEN "error" ELSE "ok"

\* "except Exception as e: log.warning(...)": nothing is raised
delete_collection_result(raised) == "ok"

\* delete_project_index: "except Exception as e: log.warning(...)"
delete_project_index_result(inner) == "ok"

DeleteStart(p, c, op) ==
    /\ CanStart(p)
    /\ op \in {"delete_collection", "delete_project_index"}
    /\ cl' = [cl EXCEPT ![p] = [NewCall(op, c) EXCEPT !.pc = "d_delete"]]
    /\ hist' = [hist EXCEPT ![p] = Archive(p)]
    /\ UNCHANGED <<cfg, host, store, store0>>

DDelete(p) ==
    /\ cl[p].pc = "d_delete"
    /\ \E out \in WriteOutcomes :
        LET f == Logged(cl[p], Req("DELETE_collection", out))
            c == f.coll
            inner == delete_collection_result(DeleteRaised(out, store[c].exists))
        IN  /\ store' = IF out \in {"ok", "lost"}
                        THEN [store EXCEPT ![c] = NoCollection]
                        ELSE store
            /\ cl' = [cl EXCEPT ![p] =
                        Finish(f, IF f.op = "delete_project_index"
                                  THEN delete_project_index_result(inner)
                                  ELSE inner)]
    /\ UNCHANGED <<cfg, host, store0, hist>>

-----------------------------------------------------------------------------
(* The container runtime (external).  "docker ps -a --filter name=X" lists *)
(* the containers whose name contains X.                                   *)

ContainerNames == {"qdrant", "qdrant-dev", "redis"}

NameContains(n, x) == n = x \/ (n = "qdrant-dev" /\ x = "qdrant")

\* the listing is empty whatever the host holds
DockerPsOutputEmpty(x) == {}

DockerPsOutput(x) == {n \in host.containers : NameContains(n, x)}

DockerOutcomes == {"ok", "fail", "timeout"}

(* QdrantClient.__init__ and _ensure_qdrant_running *)

\* is_qdrant_running: True only on a 200 answer of /healthz; a probe may
\* fail while the service is up
ProbeResults == IF host.up THEN {TRUE, FALSE} ELSE {FALSE}

Probe(healthy) == Req("GET_healthz", IF healthy THEN "ok" ELSE "fail")

\* the container is started whatever enable_auto_start says
AfterFirstProbeIgnoresFlag(f, healthy) ==
    IF healthy THEN Finish(f, "ok") ELSE [f EXCEPT !.pc = "c_list"]

\* the container is started whatever the probe says
AfterFirstProbeAlwaysStarts(f, healthy) ==
    IF cfg.enable_auto_start THEN [f EXCEPT !.pc = "c_list"]
    ELSE IF healthy THEN Finish(f, "ok") ELSE Finish(f, "error")

\* _ensure_qdrant_running after its one probe
AfterFirstProbe(f, healthy) ==
    CASE healthy -> Finish(f, "ok")
      [] ~healthy /\ ~cfg.enable_auto_start -> Finish(f, "error")
      [] OTHER -> [f EXCEPT !.pc = "c_list"]

CtorStart(p) ==
    /\ CanStart(p)
    /\ cl' = [cl EXCEPT ![p] = [Idle EXCEPT !.pc = "c_probe", !.op = "__init__"]]
    /\ hist' = [hist EXCEPT ![p] = Archive(p)]
    /\ UNCHANGED <<cfg, host, store, store0>>

CProbe(p) ==
    /\ cl[p].pc = "c_probe"
    /\ \E healthy \in ProbeResults :
        cl' = [cl EXCEPT ![p] = AfterFirstProbe(Logged(cl[p], Probe(healthy)), healthy)]
    /\ UNCHANGED <<cfg, host, store, store0, hist>>

(* QdrantClient._start_qdrant_docker *)

\* "if self.config.docker_container_name in result.stdout"
CList(p) ==
    /\ cl[p].pc = "c_list"
    /\ \E out \in DockerOutcomes :
        LET f == Logged(cl[p], Req("docker_ps", out))
            found == DockerPsOutput(cfg.docker_container_name) # {}
        IN  cl' = [cl EXCEPT ![p] =
                     IF out # "ok" THEN Finish(f, "error")
                     ELSE [f EXCEPT !.pc = IF found THEN "c_start" ELSE "c_run"]]
    /\ UNCHANGED <<cfg, host, store, store0, hist>>

\* "docker start <name>": succeeds only for a container of exactly that name
CStart(p) ==
    /\ cl[p].pc = "c_start"
    /\ \E out \in DockerOutcomes :
        LET f == Logged(cl[p], Req("docker_start", out))
            name == cfg.docker_container_name
        IN  /\ out = "ok" => name \in host.containers
            /\ host' = IF out = "ok" THEN [host EXCEPT !.running = @ \cup {name}] ELSE host
            /\ cl' = [cl EXCEPT ![p] =
                        IF out = "ok" THEN [f EXCEPT !.pc = "c_poll", !.waited = 0]
                        ELSE Finish(f, "error")]
    /\ UNCHANGED <<cfg, store, store0, hist>>

\* a failed "docker run" is ignored and the constructor goes on to wait
RunFailedIgnored(f) == [f EXCEPT !.pc = "c_poll", !.waited = 0]

\* "except subprocess.CalledProcessError / TimeoutExpired: raise QdrantClientError"
RunFailed(f) == Finish(f, "error")

\* "docker run -d --name <name> ...": the runtime rejects a name in use; a
\* failed run may leave the container created ("fail_created")
CRun(p) ==
    /\ cl[p].pc = "c_run"
    /\ \E out \in DockerOutcomes \cup {"fail_created"} :
        LET f == Logged(cl[p], Req("docker_run", out))
            name == cfg.docker_container_name
        IN  /\ out \in {"ok", "fail_created"} => name \notin host.containers
            /\ host' = CASE out = "ok" ->
                               [host EXCEPT !.containers = @ \cup {name}, !.running = @ \cup {name}]
                          [] out = "fail_created" -> [host EXCEPT !.containers = @ \cup {name}]
                          [] OTHER -> host
            /\ cl' = [cl EXCEPT ![p] =
                        IF out = "ok" THEN [f EXCEPT !.pc = "c_poll", !.waited = 0]
                        ELSE RunFailed(f)]
    /\ UNCHANGED <<cfg, store, store0, hist>>

\* the loop makes one round more
KeepWaitingOneMore(waited) == waited <= MaxWait

\* "while waited < max_wait"
KeepWaiting(waited) == waited < MaxWait

\* one round of the loop: a probe, then a second of sleep
CPoll(p) ==
    /\ cl[p].pc = "c_poll"
    /\ IF KeepWaiting(cl[p].waited)
       THEN \E healthy \in ProbeResults :
              LET f == Logged(cl[p], Probe(healthy)) IN
              cl' = [cl EXCEPT ![p] =
                       IF healthy THEN Finish(f, "ok") ELSE [f EXCEPT !.waited = @ + 1]]
       ELSE cl' = [cl EXCEPT ![p] = Finish(cl[p], "error")]
    /\ UNCHANGED <<cfg, host, store, store0, hist>>

\* the service stops answering
ServiceGoesDown ==
    /\ host.up
    /\ host' = [host EXCEPT !.up = FALSE, !.running = {}]
    /\ UNCHANGED <<cfg, store, store0, cl, hist>>

\* the service of a running container begins to answer
ServiceComesUp ==
    /\ ~host.up
    /\ cfg.docker_container_name \in host.running
    /\ host' = [host EXCEPT !.up = TRUE]
    /\ UNCHANGED <<cfg, store, store0, cl, hist>>

-----------------------------------------------------------------------------
(* QdrantClient.get_collection_name.  A string is the sequence of its      *)
(* characters.                                                             *)

UpperCase == <<"A", "B", "C", "D", "E", "F", "G", "H", "I", "J", "K", "L", "M", "N", "O", "P", "Q", "R", "S", "T", "U", "V", "W", "X", "Y", "Z">>
LowerCase == <<"a", "b", "c", "d", "e", "f", "g", "h", "i", "j", "k", "l", "m", "n", "o", "p", "q", "r", "s", "t", "u", "v", "w", "x", "y", "z">>

\* str.lower(), one character
LowerChar(ch) ==
    IF \E k \in 1..Len(UpperCase) : UpperCase[k] = ch
    THEN LowerCase[CHOOSE k \in 1..Len(UpperCase) : UpperCase[k] = ch]
    ELSE ch

\* str.lower()
Lower(str) == [k \in 1..Len(str) |-> LowerChar(str[k])]

\* str.replace(a, b) for single characters a and b
Replace(str, a, b) == [k \in 1..Len(str) |-> IF str[k] = a THEN b ELSE str[k]]

\* QdrantConfig.collection_name_prefix
CollectionNamePrefix == <<"s", "e", "r", "e", "n", "a", "_", "p", "r", "o", "j", "e", "c", "t">>

\* the hyphens are left in place
SafeNameKeepsHyphens(project_name) == Lower(Replace(project_name, " ", "_"))

\* "project_name.replace(" ", "_").replace("-", "_").lower()"
SafeName(project_name) == Lower(Replace(Replace(project_name, " ", "_"), "-", "_"))

get_collection_name(project_name) == CollectionNamePrefix \o <<"_">> \o SafeName(project_name)

NameAlphabet == {"a", "B", " ", "-", "_"}

MyProject == <<"m", "y", "-", "p", "r", "o", "j", "e", "c", "t">>
MyProjectSpaced == <<"M", "y", " ", "P", "r", "o", "j", "e", "c", "t">>
Test123 == <<"t", "e", "s", "t", "_", "1", "2", "3">>

ProjectNames == SeqsUpTo(NameAlphabet, MaxNameLen) \cup {MyProject, MyProjectSpaced, Test123}

GetCollectionName(p, project_name) ==
    /\ CanStart(p)
    /\ cl' = [cl EXCEPT ![p] =
                Finish([Idle EXCEPT !.op = "get_collection_name", !.name = project_name,
                                    !.ident = get_collection_name(project_name)], "ok")]
    /\ hist' = [hist EXCEPT ![p] = Archive(p)]
    /\ UNCHANGED <<cfg, host, store, store0>>

-----------------------------------------------------------------------------
(* ProjectIndexer.index_project_files.  The source files of the project    *)
(* are the sequence gather_source_files returns; each is readable, with    *)
(* its content, or its read fails.  The i-th file (from 0) has the path    *)
(* PathOf(i).                                                              *)

FileContents == {"alpha beta", "gamma"}

FileOutcomes ==
    {[readable |-> TRUE, content |-> t] : t \in FileContents}
        \cup {[readable |-> FALSE, content |-> ""]}

PathOf(i) == <<"src", i>>

AbsolutePathOf(i) == <<"/", "project">> \o PathOf(i)

\* the id is the number of documents assembled so far
DocIdIsPosition(i, documents) == Len(documents)

\* "for i, file_path in enumerate(source_files): ... "id": i"
DocId(i, documents) == i

\* the document of the i-th file: "doc = {"id": ..., "text": content, "metadata": {...}}"
FileDocument(i, file, project_name, documents) ==
    [id |-> DocId(i, documents), text |-> file.content,
     metadata |-> [file_path |-> PathOf(i), absolute_path |-> AbsolutePathOf(i),
                   project_name |-> project_name]]

RECURSIVE AssembleDocuments(_, _, _, _)

\* the loop ends at the first file whose read fails
ReadFailureAborts(files, i, project_name, documents) == documents

\* "except Exception as e: log.warning(...); continue"
ReadFailure(files, i, project_name, documents) ==
    AssembleDocuments(files, i + 1, project_name, documents)

\* the loop over the source files from the i-th on
AssembleDocuments(files, i, project_name, documents) ==
    IF i >= Len(files) THEN documents
    ELSE IF files[i + 1].readable
         THEN AssembleDocuments(files, i + 1, project_name,
                  Append(documents, FileDocument(i, files[i + 1], project_name, documents)))
         ELSE ReadFailure(files, i, project_name, documents)

\* the enumeration of the files and the read of each, as logged
ReadLog(files) ==
    <<Req("gather_source_files", "ok")>> \o
    [k \in 1..Len(files) |->
        [Req("read_file", IF files[k].readable THEN "ok" ELSE "fail") EXCEPT !.text = PathOf(k - 1)]]

\* the flag is not looked at
AutoIndexingNeverDisabled == FALSE

\* "if not self.qdrant_config.enable_auto_indexing: return"
AutoIndexingDisabled == ~cfg.enable_auto_indexing

\* up to the call of index_documents, whose failure is raised again
index_project_files(f) ==
    IF AutoIndexingDisabled THEN Finish(f, "ok")
    ELSE LET documents == AssembleDocuments(f.files, 0, f.name, <<>>)
             g == [f EXCEPT !.docs = documents, !.reqs = ReadLog(f.files)]
         IN  IF documents = <<>> THEN Finish(g, "ok") ELSE IndexEntry(g)

\* the controller of the project project_name: its collection is the
\* identity derived in ProjectIndexer.__init__
IndexProjectFilesStart(p, project_name, files) ==
    /\ CanStart(p)
    /\ cl' = [cl EXCEPT ![p] =
                index_project_files([NewCall("index_project_files", get_collection_name(project_name))
                                        EXCEPT !.name = project_name, !.files = files])]
    /\ hist' = [hist EXCEPT ![p] = Archive(p)]
    /\ UNCHANGED <<cfg, host, store, store0>>

-----------------------------------------------------------------------------
(* QdrantConfig: its defaults, to_dict and from_dict *)

\* QdrantConfig() with its defaults
DefaultConfig ==
    [qdrant_url |-> "http://localhost:6333",
     collection_name_prefix |-> "serena_project",
     ollama_provider_url |-> "http://localhost:11434",
     embedding_model |-> "qwen3-embedding:4b",
     model_dimension |-> DefaultModelDimension,
     batch_size |-> DefaultBatchSize, enable_auto_start |-> TRUE,
     enable_auto_indexing |-> TRUE,
     max_search_results |-> DefaultMaxSearchResults,
     search_score_threshold |-> SearchScoreThreshold,
     docker_container_name |-> "qdrant"]

\* cls.__annotations__: the fields of the dataclass
ConfigFields ==
    {"qdrant_url", "collection_name_prefix", "ollama_provider_url", "embedding_model",
     "model_dimension", "search_score_threshold", "max_search_results",
     "docker_container_name", "enable_auto_start", "batch_size", "enable_auto_indexing"}

\* the dictionary lacks the last field
ToDictKeysWithoutOne == ConfigFields \ {"enable_auto_indexing"}

\* the keys of the dictionary to_dict returns
ToDictKeys ==
    {"qdrant_url", "collection_name_prefix", "ollama_provider_url", "embedding_model",
     "model_dimension", "search_score_threshold", "max_search_results",
     "docker_container_name", "enable_auto_start", "batch_size", "enable_auto_indexing"}

to_dict(config) == [k \in ToDictKeys |-> config[k]]

\* "cls(**{k: v for k, v in config_dict.items() if k in cls.__annotations__})"
from_dict(config_dict) ==
    Merge(DefaultConfig, [k \in DOMAIN config_dict \cap ConfigFields |-> config_dict[k]])

\* another value than the default for each field
CustomConfig ==
    [qdrant_url |-> "http://custom:6333",
     collection_name_prefix |-> "custom",
     ollama_provider_url |-> "http://custom:11434",
     embedding_model |-> "custom-model",
     model_dimension |-> 768,
     batch_size |-> 1, enable_auto_start |-> FALSE,
     enable_auto_indexing |-> FALSE,
     max_search_results |-> 5,
     search_score_threshold |-> 75,
     docker_container_name |-> "qdrant-dev"]

\* the sets of at most MaxCustom fields
FewFields == {K \in SUBSET ConfigFields : Cardinality(K) <= MaxCustom}

\* the configurations with at most MaxCustom fields set to the other value
Configs == {Merge(DefaultConfig, [k \in K |-> CustomConfig[k]]) : K \in FewFields}

\* dictionaries with at most MaxCustom of the fields, without or with a
\* key that is not a field
ConfigDicts ==
    {[k \in K |-> CustomConfig[k]] : K \in FewFields}
        \cup {Merge([unknown_key |-> "x"], [k \in K |-> CustomConfig[k]]) : K \in FewFields}

ToDict(p) ==
    /\ CanStart(p)
    /\ cl' = [cl EXCEPT ![p] = Finish([Idle EXCEPT !.op = "to_dict", !.ret = to_dict(cfg)], "ok")]
    /\ hist' = [hist EXCEPT ![p] = Archive(p)]
    /\ UNCHANGED <<cfg, host, store, store0>>

FromDict(p, config_dict) ==
    /\ CanStart(p)
    /\ cl' = [cl EXCEPT ![p] =
                Finish([Idle EXCEPT !.op = "from_dict", !.dict = config_dict,
                                    !.ret = from_dict(config_dict)], "ok")]
    /\ hist' = [hist EXCEPT ![p] = Archive(p)]
    /\ UNCHANGED <<cfg, host, store, store0>>

\* the service is up, no call has been made
Quiet ==
    /\ host = [up |-> TRUE, containers |-> {}, running |-> {}]
    /\ cl = [p \in Procs |-> Idle]
    /\ hist = [p \in Procs |-> <<>>]

Init ==
    /\ cfg \in {[DefaultConfig EXCEPT !.batch_size = b] : b \in BatchSizes}
    /\ store \in InitStores
    /\ store0 = store
    /\ Quiet

Next ==
    \/ \E c \in Colls, docs \in SeqsUpTo(DocUniverse, MaxDocs) :
          /\ cl[1].pc = "idle"
          /\ IndexStart(1, c, docs)
    \/ IdxExists(1)
    \/ CcExists(1)
    \/ CcPut(1)
    \/ IdxEmbed(1)
    \/ IdxUpsert(1)

Spec == Init /\ [][Next]_vars

(* Specification: a search of client 1, on the store as it is or after an  *)
(* index_documents call that succeeded                                     *)

NextSearch ==
    \/ \E c \in Colls, docs \in SeqsUpTo(DocUniverse, MaxSearchDocs) :
          /\ cl[1].pc = "idle"
          /\ IndexStart(1, c, docs)
    \/ IdxExists(1)
    \/ CcExists(1)
    \/ CcPut(1)
    \/ IdxEmbed(1)
    \/ IdxUpsert(1)
    \/ \E c \in Colls, text \in QueryTexts, limit \in Limits :
          /\ cl[1].pc = "idle" \/ (IndexDone(cl[1]) /\ cl[1].result = "ok")
          /\ SearchStart(1, c, text, limit)
    \/ SExists(1)
    \/ SEmbed(1)
    \/ SPost(1)

SpecSearch == Init /\ [][NextSearch]_vars

(* Specification: a sequence of create_collection, delete_collection and   *)
(* delete_project_index calls of client 1                                  *)

InitColl ==
    /\ cfg = DefaultConfig
    /\ store \in InitStores
    /\ store0 = store
    /\ Quiet

CallsMade(p) == Len(hist[p]) + (IF cl[p].pc = "done" THEN 1 ELSE 0)

NextColl ==
    \/ \E c \in Colls :
          /\ CallsMade(1) < MaxCalls
          /\ CreateStart(1, c)
    \/ CcExists(1)
    \/ CcPut(1)
    \/ \E c \in Colls, op \in {"delete_collection", "delete_project_index"} :
          /\ CallsMade(1) < MaxCalls
          /\ DeleteStart(1, c, op)
    \/ DDelete(1)

SpecColl == InitColl /\ [][NextColl]_vars

(* Specification: the construction of client 1 *)

InitCtor ==
    /\ cfg \in {[DefaultConfig EXCEPT !.enable_auto_start = a] : a \in BOOLEAN}
    /\ host \in [up : BOOLEAN, containers : SUBSET ContainerNames, running : {{}}]
    /\ store = [c \in Colls |-> NoCollection]
    /\ store0 = store
    /\ cl = [p \in Procs |-> Idle]
    /\ hist = [p \in Procs |-> <<>>]

NextCtor ==
    \/ cl[1].pc = "idle" /\ CtorStart(1)
    \/ CProbe(1)
    \/ CList(1)
    \/ CStart(1)
    \/ CRun(1)
    \/ CPoll(1)
    \/ ServiceComesUp

SpecCtor == InitCtor /\ [][NextCtor]_vars

(* Specification: the construction of client 1, each of its steps taken    *)
(* in the end: the constructor is sequential code, and each of its         *)
(* requests and commands has a timeout                                     *)

CtorStep == CProbe(1) \/ CList(1) \/ CStart(1) \/ CRun(1) \/ CPoll(1)

SpecCtorLive == InitCtor /\ [][NextCtor]_vars /\ WF_vars(CtorStep)

(* Specification: the construction of client 1 and, once it has returned,  *)
(* one call of a method of the client; the service may go down after the   *)
(* construction                                                            *)

\* the constructor of client p has returned, and no method was called yet
Constructed(p) == cl[p].op = "__init__" /\ cl[p].pc = "done" /\ cl[p].result = "ok"

InitLife ==
    /\ cfg \in {[DefaultConfig EXCEPT !.enable_auto_start = a] : a \in BOOLEAN}
    /\ host \in [up : BOOLEAN, containers : SUBSET {"qdrant"}, running : {{}}]
    /\ store \in InitStores
    /\ store0 = store
    /\ cl = [p \in Procs |-> Idle]
    /\ hist = [p \in Procs |-> <<>>]

NextLife ==
    \/ cl[1].pc = "idle" /\ CtorStart(1)
    \/ CProbe(1)
    \/ CList(1)
    \/ CStart(1)
    \/ CRun(1)
    \/ CPoll(1)
    \/ ServiceComesUp
    \/ (Constructed(1) \/ hist[1] # <<>>) /\ ServiceGoesDown
    \/ \E c \in Colls, docs \in SeqsUpTo(DocUniverse, MaxLifeDocs) :
          Constructed(1) /\ IndexStart(1, c, docs)
    \/ \E c \in Colls, text \in QueryTexts, limit \in Limits :
          Constructed(1) /\ SearchStart(1, c, text, limit)
    \/ \E c \in Colls : Constructed(1) /\ CreateStart(1, c)
    \/ \E c \in Colls : Constructed(1) /\ DeleteStart(1, c, "delete_collection")
    \/ IdxExists(1)
    \/ CcExists(1)
    \/ CcPut(1)
    \/ IdxEmbed(1)
    \/ IdxUpsert(1)
    \/ SExists(1)
    \/ SEmbed(1)
    \/ SPost(1)
    \/ DDelete(1)

SpecLife == InitLife /\ [][NextLife]_vars

(* Specification: two processes construct a client each, concurrently and  *)
(* for the same container name, while the service is down and the host     *)
(* has no container                                                        *)

InitRace ==
    /\ cfg = DefaultConfig
    /\ host = [up |-> FALSE, containers |-> {}, running |-> {}]
    /\ store = [c \in Colls |-> NoCollection]
    /\ store0 = store
    /\ cl = [p \in Procs |-> Idle]
    /\ hist = [p \in Procs |-> <<>>]

NextRace ==
    \/ \E p \in Procs : cl[p].pc = "idle" /\ CtorStart(p)
    \/ \E p \in Procs : CProbe(p)
    \/ \E p \in Procs : CList(p)
    \/ \E p \in Procs : CStart(p)
    \/ \E p \in Procs : CRun(p)
    \/ \E p \in Procs : CPoll(p)
    \/ ServiceComesUp

SpecRace == InitRace /\ [][NextRace]_vars

(* Specification: a sequence of constructions of clients by one process,   *)
(* each ensuring that the service runs                                     *)

NextEnsure ==
    \/ CallsMade(1) < MaxCalls /\ CtorStart(1)
    \/ CProbe(1)
    \/ CList(1)
    \/ CStart(1)
    \/ CRun(1)
    \/ CPoll(1)
    \/ ServiceComesUp

SpecEnsure == InitCtor /\ [][NextEnsure]_vars

(* Specification: the collection identity of a project name, derived once  *)
(* and then derived again from the same name or from the sanitised name    *)

\* an identity without the prefix and its underscore
Unprefixed(ident) == SubSeq(ident, Len(CollectionNamePrefix) + 2, Len(ident))

InitName ==
    /\ cfg = DefaultConfig
    /\ store = [c \in Colls |-> NoCollection]
    /\ store0 = store
    /\ Quiet

NextName ==
    \/ \E n \in ProjectNames :
          /\ cl[1].pc = "idle"
          /\ GetCollectionName(1, n)
    \/ \E n \in {cl[1].name, Unprefixed(cl[1].ident)} :
          /\ cl[1].pc = "done" /\ hist[1] = <<>>
          /\ GetCollectionName(1, n)

SpecName == InitName /\ [][NextName]_vars

(* Specification: the controller of one project: index_project_files and   *)
(* then search_in_project                                                  *)

ProjectP == <<"p">>

\* the source files gather_source_files may return
SourceFiles == SeqsUpTo(FileOutcomes, MaxFiles)

\* the stores a controller may find: its collection absent, empty, or
\* holding a point of an earlier run
ProjectStores(names) ==
    {[c \in {get_collection_name(n) : n \in names} |-> x] :
        x \in {w[c] : w \in InitStores, c \in Colls}}

InitProject ==
    /\ cfg \in {[DefaultConfig EXCEPT !.enable_auto_indexing = a] : a \in BOOLEAN}
    /\ store \in ProjectStores({ProjectP})
    /\ store0 = store
    /\ Quiet

NextProject ==
    \/ \E files \in SourceFiles :
          /\ cl[1].pc = "idle"
          /\ IndexProjectFilesStart(1, ProjectP, files)
    \/ IdxExists(1)
    \/ CcExists(1)
    \/ CcPut(1)
    \/ IdxEmbed(1)
    \/ IdxUpsert(1)
    \/ \E text \in QueryTexts, limit \in Limits :
          /\ cl[1].op # "search_in_project"
          /\ SearchInProjectStart(1, get_collection_name(ProjectP), text, limit)
    \/ SExists(1)
    \/ SEmbed(1)
    \/ SPost(1)

SpecProject == InitProject /\ [][NextProject]_vars

(* Specification: the controller of project "p" indexes the project, and   *)
(* indexes it again after the source files changed                         *)

\* what is kept of the first run: its files, its documents and its result
ReindexSummary(f) ==
    [Idle EXCEPT !.pc = "done", !.op = f.op, !.coll = f.coll, !.name = f.name,
                 !.files = f.files, !.docs = f.docs, !.result = f.result]

ReindexStart(p, files) ==
    /\ cl[p].op = "index_project_files" /\ cl[p].pc = "done"
    /\ hist[p] = <<>>
    /\ cl' = [cl EXCEPT ![p] =
                index_project_files([NewCall("index_project_files", cl[p].coll)
                                        EXCEPT !.name = cl[p].name, !.files = files])]
    /\ hist' = [hist EXCEPT ![p] = <<ReindexSummary(cl[p])>>]
    /\ UNCHANGED <<cfg, host, store, store0>>

InitReindex ==
    /\ cfg = DefaultConfig
    /\ store \in ProjectStores({ProjectP})
    /\ store0 = store
    /\ Quiet

NextReindex ==
    \/ \E files \in SeqsUpTo(FileOutcomes, MaxReindexFiles) :
          /\ cl[1].pc = "idle"
          /\ IndexProjectFilesStart(1, ProjectP, files)
    \/ \E files \in SeqsUpTo(FileOutcomes, MaxReindexFiles) : ReindexStart(1, files)
    \/ IdxExists(1)
    \/ CcExists(1)
    \/ CcPut(1)
    \/ IdxEmbed(1)
    \/ IdxUpsert(1)

SpecReindex == InitReindex /\ [][NextReindex]_vars

(* Specification: one index_project_files call of the controller of        *)
(* project "p", for every batch size                                       *)

InitBatched ==
    /\ cfg \in {[DefaultConfig EXCEPT !.batch_size = b] : b \in BatchSizes}
    /\ store \in ProjectStores({ProjectP})
    /\ store0 = store
    /\ Quiet

NextBatched ==
    \/ \E files \in SourceFiles :
          /\ cl[1].pc = "idle"
          /\ IndexProjectFilesStart(1, ProjectP, files)
    \/ IdxExists(1)
    \/ CcExists(1)
    \/ CcPut(1)
    \/ IdxEmbed(1)
    \/ IdxUpsert(1)

SpecBatched == InitBatched /\ [][NextBatched]_vars

(* Specification: index_documents of client 1, run again with the same     *)
(* document list on the same collection after it failed or succeeded, any  *)
(* number of times.  Of the earlier runs hist keeps the first, without its *)
(* request log.                                                            *)

\* documents of which two have the same id
RerunDocUniverse ==
    { [id |-> 0, text |-> "alpha beta", metadata |-> NoMeta],
      [id |-> 1, text |-> "gamma",      metadata |-> FileMeta],
      [id |-> 0, text |-> "gamma",      metadata |-> NoMeta] }

\* what is kept of a finished run: its arguments, its result, and the start
\* of the batch it ended in
RunSummary(f) ==
    [Idle EXCEPT !.pc = "done", !.op = f.op, !.coll = f.coll, !.docs = f.docs,
                 !.result = f.result, !.i = f.i]

\* index_documents called again with the arguments of the call that ended
RerunStart(p) ==
    /\ IndexDone(cl[p])
    /\ cl' = [cl EXCEPT ![p] =
                IndexEntry([NewCall("index_documents", cl[p].coll) EXCEPT !.docs = cl[p].docs])]
    /\ hist' = [hist EXCEPT ![p] = IF @ = <<>> THEN <<RunSummary(cl[p])>> ELSE @]
    /\ UNCHANGED <<cfg, host, store, store0>>

NextRerun ==
    \/ \E c \in Colls, docs \in SeqsUpTo(RerunDocUniverse, MaxRerunDocs) :
          /\ cl[1].pc = "idle"
          /\ IndexStart(1, c, docs)
    \/ RerunStart(1)
    \/ IdxExists(1)
    \/ CcExists(1)
    \/ CcPut(1)
    \/ IdxEmbed(1)
    \/ IdxUpsert(1)

SpecRerun == Init /\ [][NextRerun]_vars

(* Specification: two clients run index_documents concurrently for one     *)
(* collection that does not exist; no request fails in transport, the      *)
(* embedding provider always answers, and the store rejects the creation   *)
(* of a collection that exists                                             *)

\* the request a step of client p issues is answered
Answered(p) ==
    LET log == cl'[p].reqs
    IN  log # cl[p].reqs => log[Len(log)].out = "ok"

InitConcurrent ==
    /\ cfg \in {[DefaultConfig EXCEPT !.batch_size = b] : b \in 1..MaxBatch}
    /\ store = [c \in Colls |-> NoCollection]
    /\ store0 = store
    /\ Quiet

NextConcurrent ==
    \/ \E p \in Procs, c \in Colls :
        \E docs \in SeqsUpTo(RerunDocUniverse, MaxConcurrentDocs) \ {<<>>} :
          /\ cl[p].pc = "idle"
          /\ IndexStart(p, c, docs)
    \/ \E p \in Procs : IdxExists(p) /\ Answered(p)
    \/ \E p \in Procs : CcExists(p) /\ Answered(p)
    \/ \E p \in Procs : CcPut(p) /\ Answered(p)
    \/ \E p \in Procs : IdxEmbed(p) /\ Answered(p)
    \/ \E p \in Procs : IdxUpsert(p) /\ Answered(p)

SpecConcurrent == InitConcurrent /\ [][NextConcurrent]_vars

(* Specification: a configuration turned into its dictionary and back, and *)
(* configurations made from dictionaries                                   *)

InitConfig ==
    /\ cfg \in Configs
    /\ store = [c \in Colls |-> NoCollection]
    /\ store0 = store
    /\ Quiet

NextConfig ==
    \/ cl[1].pc = "idle" /\ ToDict(1)
    \/ /\ cl[1].op = "to_dict" /\ cl[1].pc = "done"
       /\ FromDict(1, cl[1].ret)
    \/ \E d \in ConfigDicts :
          /\ cl[1].pc = "idle"
          /\ FromDict(1, d)

SpecConfig == InitConfig /\ [][NextConfig]_vars

(* Specification: the controllers of two projects of different names, one  *)
(* per client, each indexing its files once, their steps interleaved       *)

\* the project names of the tests
TwoProjectNames == {MyProject, MyProjectSpaced, Test123}

InitTwo ==
    /\ cfg = DefaultConfig
    /\ store = [c \in {get_collection_name(n) : n \in TwoProjectNames} |-> NoCollection]
    /\ store0 = store
    /\ Quiet

NextTwo ==
    \/ \E p \in Procs, n \in TwoProjectNames, files \in SeqsUpTo(FileOutcomes, MaxSharedFiles) :
          /\ cl[p].pc = "idle"
          /\ \A q \in Procs \ {p} : cl[q].name # n
          /\ IndexProjectFilesStart(p, n, files)
    \/ \E p \in Procs : IdxExists(p)
    \/ \E p \in Procs : CcExists(p)
    \/ \E p \in Procs : CcPut(p)
    \/ \E p \in Procs : IdxEmbed(p)
    \/ \E p \in Procs : IdxUpsert(p)

SpecTwo == InitTwo /\ [][NextTwo]_vars

-----------------------------------------------------------------------------
(* Reading a call's request log *)

Kinds(log, kind) == SelectSeq(log, LAMBDA r : r.kind = kind)

CeilDiv(n, b) == (n + b - 1) \div b

\* the k-th chunk (k from 0) of a document list cut into chunks of B
Chunk(docs, B, k) == SubSeq(docs, k * B + 1, Min((k + 1) * B, Len(docs)))

\* the points of a list of documents, in order
PointsOf(docs) == [n \in 1..Len(docs) |-> MakePoint(docs[n], EmbedOf(docs[n].text))]

RECURSIVE Flatten(_)
Flatten(ss) == IF ss = <<>> THEN <<>> ELSE Head(ss) \o Flatten(Tail(ss))

-----------------------------------------------------------------------------
(* C1: a successful index_documents call with N >= 1 documents and batch   *)
(* size B >= 1 issues exactly ceil(N/B) upserts; the k-th carries the      *)
(* documents k*B .. min((k+1)*B, N)-1 in order, so each carries between 1  *)
(* and B points and their concatenation is the input list.                 *)
C1_BatchedUpserts ==
    \A p \in Procs :
        LET f == cl[p]
            N == Len(f.docs)
            B == cfg.batch_size
            ups == Kinds(f.reqs, "PUT_points")
        IN  (IndexDone(f) /\ f.result = "ok" /\ N >= 1 /\ B >= 1) =>
              /\ Len(ups) = CeilDiv(N, B)
              /\ \A k \in 1..Len(ups) :
                    /\ ups[k].pts = PointsOf(Chunk(f.docs, B, k - 1))
                    /\ Len(ups[k].pts) \in 1..B
              /\ Flatten([k \in 1..Len(ups) |-> ups[k].pts]) = PointsOf(f.docs)

\* three documents, batch size 2: two upserts of sizes 2 and 1
C1_Witness ==
    LET f == cl[1]
        ups == Kinds(f.reqs, "PUT_points")
    IN  /\ IndexDone(f) /\ f.result = "ok"
        /\ Len(f.docs) = 3 /\ cfg.batch_size = 2
        /\ Len(ups) = 2 /\ Len(ups[1].pts) = 2 /\ Len(ups[2].pts) = 1

-----------------------------------------------------------------------------
(* C2: index_documents is not transactional across batches.  When the      *)
(* embedding or the upsert of chunk k fails, the call ends with an error,  *)
(* the chunks 0..k-1 were upserted and their points are still in the       *)
(* collection, a failed embedding stores no point of chunk k, and no       *)
(* request follows the failed one.                                         *)
C2_PartialFailure ==
    \A p \in Procs :
        LET f == cl[p]
            N == Len(f.docs)
            B == cfg.batch_size
            n == Len(f.reqs)
            last == f.reqs[n]
            ups == Kinds(f.reqs, "PUT_points")
            embs == Kinds(f.reqs, "POST_embeddings")
            k == Cardinality({m \in 1..Len(ups) : ups[m].out = "ok"})
            done == Min(k * B, N)
            before == StoreUpsert(store0[f.coll].pts, PointsOf(SubSeq(f.docs, 1, done)))
        IN  \A m \in 1..n :
              (/\ f.op = "index_documents"
               /\ f.reqs[m].kind \in {"POST_embeddings", "PUT_points"}
               /\ f.reqs[m].out # "ok") =>
                \* the call has ended with an error, on this request
                /\ f.pc = "done" /\ f.result = "error"
                /\ m = n
                \* the chunks before k were upserted, in order
                /\ \A c \in 1..k : ups[c].out = "ok" /\ ups[c].pts = PointsOf(Chunk(f.docs, B, c - 1))
                /\ store[f.coll].exists
                /\ last.kind = "POST_embeddings" =>
                      /\ Len(ups) = k
                      /\ Len(embs) <= Min((k + 1) * B, N)
                      /\ store[f.coll].pts = before
                /\ last.kind = "PUT_points" =>
                      /\ Len(ups) = k + 1
                      /\ Len(embs) = Min((k + 1) * B, N)
                      /\ store[f.coll].pts =
                            IF last.out = "lost" THEN StoreUpsert(before, last.pts) ELSE before

\* the embedding of the third document fails after the first chunk of two
\* was upserted into a collection that held a point already
C2_Witness ==
    LET f == cl[1]
        ups == Kinds(f.reqs, "PUT_points")
    IN  /\ IndexDone(f) /\ f.result = "error"
        /\ Len(f.docs) = 3 /\ cfg.batch_size = 2
        /\ Len(ups) = 1 /\ ups[1].out = "ok"
        /\ f.reqs[Len(f.reqs)].kind = "POST_embeddings"
        /\ Cardinality(store[f.coll].pts) = 2

-----------------------------------------------------------------------------
(* C3: index_documents with an empty list returns normally, issues no      *)
(* request at all and leaves the store unchanged.                          *)
C3_EmptyListNoRequests ==
    \A p \in Procs :
        LET f == cl[p]
        IN  (f.op = "index_documents" /\ f.docs = <<>>) =>
              /\ f.pc = "done" /\ f.result = "ok"
              /\ f.reqs = <<>>
              /\ store = store0

C3_Witness ==
    /\ cl[1].op = "index_documents" /\ cl[1].docs = <<>> /\ cl[1].pc = "done"
    /\ ~store[cl[1].coll].exists

-----------------------------------------------------------------------------
SearchDone(f) == f.op = "search" /\ f.pc = "done"

AllAnswered(log) == \A m \in 1..Len(log) : log[m].out = "ok"

(* C4: a search of a collection that does not exist returns the empty list *)
(* without raising, having issued the existence check only: no embedding   *)
(* request and no vector search.                                           *)
C4_SearchMissingCollection ==
    \A p \in Procs :
        LET f == cl[p]
        IN  (f.op = "search" /\ ~store[f.coll].exists) =>
              /\ f.pc \in {"s_exists", "done"}
              /\ Kinds(f.reqs, "POST_embeddings") = <<>>
              /\ Kinds(f.reqs, "POST_search") = <<>>
              /\ f.pc = "done" =>
                    /\ f.result = "ok" /\ f.ret = <<>>
                    /\ Len(f.reqs) = 1 /\ f.reqs[1].kind = "GET_collection"

C4_Witness ==
    /\ SearchDone(cl[1]) /\ ~store[cl[1].coll].exists
    /\ cl[1].result = "ok" /\ cl[1].ret = <<>>
    /\ cl[1].reqs[1].out = "ok"

-----------------------------------------------------------------------------
(* C5: a transport failure of any request search makes to the vector store *)
(* for a collection that exists makes search fail with an error; search    *)
(* returns no list, empty or not, after such a failure.                    *)
C5_TransportFailureRaises ==
    \A p \in Procs :
        LET f == cl[p]
        IN  (/\ SearchDone(f) /\ store[f.coll].exists
             /\ \E m \in 1..Len(f.reqs) :
                   /\ f.reqs[m].kind \in {"GET_collection", "POST_search"}
                   /\ f.reqs[m].out = "transport") =>
              f.result = "error"

-----------------------------------------------------------------------------
(* C6: create_collection twice in a row on the same name, the store        *)
(* answering every request and the first call succeeding.                  *)

\* client p has made two create_collection calls in a row on one name, the
\* first succeeded, and every request of both was answered
CreatedTwice(p) ==
    LET f == cl[p]
        h == hist[p]
    IN  /\ Len(h) >= 1
        /\ f.op = "create_collection" /\ f.pc = "done"
        /\ h[Len(h)].op = "create_collection" /\ h[Len(h)].coll = f.coll
        /\ h[Len(h)].result = "ok"
        /\ AllAnswered(h[Len(h)].reqs) /\ AllAnswered(f.reqs)

Puts(f) == Len(Kinds(f.reqs, "PUT_collection"))

(* C6 as stated: the two calls issue exactly one create request, and the   *)
(* second returns without a create request and without an error.           *)
C6_ExactlyOneCreate ==
    \A p \in Procs :
        CreatedTwice(p) =>
          /\ Puts(hist[p][Len(hist[p])]) + Puts(cl[p]) = 1
          /\ Puts(cl[p]) = 0 /\ cl[p].result = "ok"

(* C6 amended: the two calls issue at most one create request, exactly one *)
(* when the collection did not exist before the first call and none when   *)
(* it did; the second call returns without a create request and without an *)
(* error.                                                                  *)
C6_CreateIdempotent ==
    \A p \in Procs :
        CreatedTwice(p) =>
          LET first == hist[p][Len(hist[p])]
          IN  /\ Puts(first) = (IF first.existed THEN 0 ELSE 1)
              /\ Puts(cl[p]) = 0 /\ cl[p].result = "ok"
              /\ cl[p].existed /\ store[cl[p].coll].exists

\* the first call created the collection, the second found it
C6_Witness ==
    /\ CreatedTwice(1)
    /\ ~hist[1][1].existed /\ Puts(hist[1][1]) = 1
    /\ Puts(cl[1]) = 0 /\ cl[1].result = "ok"

-----------------------------------------------------------------------------
(* C7: deletion never raises.  Whatever the outcome of the DELETE request, *)
(* delete_collection returns normally, and so does the controller's        *)
(* delete_project_index.                                                   *)
C7_DeleteNeverRaises ==
    \A p \in Procs :
        LET f == cl[p]
        IN  (f.op \in {"delete_collection", "delete_project_index"} /\ f.pc = "done") =>
              /\ f.result = "ok"
              /\ Len(f.reqs) = 1 /\ f.reqs[1].kind = "DELETE_collection"

\* a DELETE that failed in transport, under delete_project_index
C7_Witness ==
    /\ cl[1].op = "delete_project_index" /\ cl[1].pc = "done" /\ cl[1].result = "ok"
    /\ cl[1].reqs[1].out = "transport"
    /\ store[cl[1].coll].exists

-----------------------------------------------------------------------------
DockerKinds == {"docker_ps", "docker_start", "docker_run"}

(* C8: with auto-start disabled and the health probe reporting the service *)
(* as not running, construction fails with an error and no container       *)
(* command (list, start, create-and-run) is attempted.                     *)
C8_NoAutoStartFails ==
    \A p \in Procs :
        LET f == cl[p]
        IN  (/\ f.op = "__init__" /\ ~cfg.enable_auto_start
             /\ Len(f.reqs) >= 1 /\ f.reqs[1].out = "fail") =>
              /\ f.pc = "done" /\ f.result = "error"
              /\ Len(f.reqs) = 1
              /\ \A m \in 1..Len(f.reqs) : f.reqs[m].kind \notin DockerKinds
              /\ host.running = {}

\* the service is down, a container of the configured name exists, and
\* construction fails without touching it
C8_Witness ==
    /\ cl[1].op = "__init__" /\ cl[1].pc = "done" /\ cl[1].result = "error"
    /\ ~cfg.enable_auto_start /\ ~host.up
    /\ cfg.docker_container_name \in host.containers
    /\ cl[1].reqs = <<Probe(FALSE)>>

-----------------------------------------------------------------------------
(* C9: the collection identity is the prefix, an underscore, and the       *)
(* project name lowercased with every space and every hyphen replaced by   *)
(* an underscore; the same name gives the same identity, and the           *)
(* sanitised name gives the identity again.                                *)

\* one character of the sanitised name, as the specification describes it
SanitisedChar(ch) == IF ch \in {" ", "-"} THEN "_" ELSE LowerChar(ch)

C9_CollectionIdentity ==
    \A p \in Procs :
        LET f == cl[p]
        IN  (f.op = "get_collection_name" /\ f.pc = "done") =>
              /\ Len(f.ident) = Len(CollectionNamePrefix) + 1 + Len(f.name)
              /\ SubSeq(f.ident, 1, Len(CollectionNamePrefix)) = CollectionNamePrefix
              /\ f.ident[Len(CollectionNamePrefix) + 1] = "_"
              /\ \A k \in 1..Len(f.name) :
                    Unprefixed(f.ident)[k] = SanitisedChar(f.name[k])
              /\ f.name \in {MyProject, MyProjectSpaced} =>
                    f.ident = <<"s", "e", "r", "e", "n", "a", "_", "p", "r", "o", "j", "e", "c", "t", "_", "m", "y", "_", "p", "r", "o", "j", "e", "c", "t">>
              /\ f.name = Test123 => f.ident = <<"s", "e", "r", "e", "n", "a", "_", "p", "r", "o", "j", "e", "c", "t", "_", "t", "e", "s", "t", "_", "1", "2", "3">>
              \* derived again from the same name or from the sanitised name
              /\ \A m \in 1..Len(hist[p]) :
                    LET h == hist[p][m]
                    IN  (/\ h.op = "get_collection_name"
                         /\ f.name \in {h.name, Unprefixed(h.ident)}) =>
                          f.ident = h.ident

\* "My Project" gave "serena_project_my_project", and so did "my_project"
C9_Witness ==
    /\ Len(hist[1]) = 1 /\ hist[1][1].name = MyProjectSpaced
    /\ cl[1].op = "get_collection_name" /\ cl[1].pc = "done"
    /\ cl[1].name = Unprefixed(hist[1][1].ident) /\ cl[1].name # hist[1][1].name
    /\ cl[1].ident = hist[1][1].ident

-----------------------------------------------------------------------------
(* C10: index-then-search round trip.  The frame of the index_documents    *)
(* call that the search follows is the last one of hist.                   *)

\* the search of client p follows a successful index_documents call on the
\* same collection, and each of its requests was answered
RoundTrip(p) ==
    LET f == cl[p]
        h == hist[p]
    IN  /\ SearchDone(f) /\ Len(h) >= 1
        /\ IndexDone(h[Len(h)]) /\ h[Len(h)].result = "ok" /\ h[Len(h)].coll = f.coll
        /\ cfg.batch_size >= 1
        /\ AllAnswered(f.reqs)

\* no later document of the list has the id of the n-th
LastWithId(docs, n) == \A m \in (n + 1)..Len(docs) : docs[m].id # docs[n].id

(* C10 as stated: the search returns a non-empty list whose top entry's    *)
(* payload text is the text of d, for every document d of the indexed list *)
(* whose text embeds to the vector of the query.                           *)
C10_TopIsDocument ==
    \A p \in Procs :
        RoundTrip(p) =>
          LET f == cl[p]
              docs == hist[p][Len(hist[p])].docs
          IN  \A n \in 1..Len(docs) :
                EmbedOf(docs[n].text) = EmbedOf(f.text) =>
                  /\ f.result = "ok" /\ f.ret # <<>>
                  /\ f.ret[1].payload.text = docs[n].text

(* C10 amended: when no later document of the list has the id of d, the    *)
(* search returns a non-empty list whose top entry scores 1.0 and is a     *)
(* stored point with the vector of the query; its payload text is the text *)
(* of d when no other stored point has that vector and the metadata of d   *)
(* has no "text" entry.                                                    *)
C10_RoundTrip ==
    \A p \in Procs :
        RoundTrip(p) =>
          LET f == cl[p]
              docs == hist[p][Len(hist[p])].docs
              pts == store[f.coll].pts
          IN  \A n \in 1..Len(docs) :
                (EmbedOf(docs[n].text) = EmbedOf(f.text) /\ LastWithId(docs, n)) =>
                  /\ f.result = "ok" /\ f.ret # <<>>
                  /\ f.ret[1].score = 100
                  /\ \E q \in pts : q.vector = EmbedOf(f.text) /\ q.payload = f.ret[1].payload
                  /\ (/\ \A q \in pts : q.vector = EmbedOf(f.text) => q.id = docs[n].id
                      /\ "text" \notin DOMAIN docs[n].metadata) =>
                        f.ret[1].payload.text = docs[n].text

\* "alpha beta" indexed, "alpha" searched: the top entry is "alpha beta"
C10_Witness ==
    /\ RoundTrip(1)
    /\ hist[1][1].docs = <<[id |-> 0, text |-> "alpha beta", metadata |-> NoMeta]>>
    /\ cl[1].text = "alpha"
    /\ cl[1].ret # <<>> /\ cl[1].ret[1].payload.text = "alpha beta"

-----------------------------------------------------------------------------
(* C11: search_in_project never raises.  When the search of the client     *)
(* fails (a failed embedding request, a vector search that failed in       *)
(* transport or was answered non-2xx) search_in_project returns the empty  *)
(* list; when the search succeeds it returns the list of the search        *)
(* unchanged.                                                              *)
C11_SearchInProjectNeverRaises ==
    \A p \in Procs :
        LET f == cl[p]
            last == f.reqs[Len(f.reqs)]
            failed == last.kind \in {"POST_embeddings", "POST_search"} /\ last.out # "ok"
        IN  (f.op = "search_in_project" /\ f.pc = "done") =>
              /\ f.result = "ok"
              /\ f.inner = (IF failed THEN "error" ELSE "ok")
              /\ f.inner = "error" => f.ret = <<>>
              /\ f.inner = "ok" =>
                    /\ f.ret = f.inner_ret
                    /\ last.kind = "POST_search" =>
                          f.ret \in StoreSearch(store[f.coll].pts, EmbedOf(f.text),
                                                last.limit, last.threshold)

\* the vector search fails in transport on a collection that holds points
C11_Witness ==
    LET f == cl[1]
    IN  /\ f.op = "search_in_project" /\ f.pc = "done" /\ f.result = "ok"
        /\ f.inner = "error" /\ f.ret = <<>>
        /\ f.reqs[Len(f.reqs)].kind = "POST_search"
        /\ f.reqs[Len(f.reqs)].out = "transport"
        /\ \E q \in store[f.coll].pts : q.vector = EmbedOf(f.text)

-----------------------------------------------------------------------------
(* Reading a frame of index_project_files *)

\* the positions (from 0) of the files whose read succeeds, in order
ReadablePositions(files) ==
    SelectSeq([k \in 1..Len(files) |-> k - 1], LAMBDA i : files[i + 1].readable)

\* the frame of an index_project_files call that went past the flag
Assembled(f) == f.op = "index_project_files" /\ cfg.enable_auto_indexing

(* C12 as stated: the ids of the documents handed to index_documents are   *)
(* 0, 1, ..., k-1 in order, k being the number of files read successfully, *)
(* whichever reads fail.                                                   *)
C12_IdsArePositions ==
    \A p \in Procs :
        LET f == cl[p]
        IN  Assembled(f) =>
              /\ Len(f.docs) = Len(ReadablePositions(f.files))
              /\ \A n \in 1..Len(f.docs) : f.docs[n].id = n - 1

(* C12 amended: the id of a document is the 0-based position of its file   *)
(* in the enumeration of the source files, failed reads counted; the ids   *)
(* are strictly increasing, and they are 0, 1, ..., k-1 exactly when no    *)
(* failed read precedes a file read successfully.                          *)
C12_IdsAreEnumerationIndexes ==
    \A p \in Procs :
        LET f == cl[p]
            rp == ReadablePositions(f.files)
            k == Len(rp)
        IN  Assembled(f) =>
              /\ Len(f.docs) = k
              /\ \A n \in 1..k :
                    /\ f.docs[n].id = rp[n]
                    /\ f.docs[n].metadata.file_path = PathOf(f.docs[n].id)
              /\ \A n, n2 \in 1..k : n < n2 => f.docs[n].id < f.docs[n2].id
              /\ (\A n \in 1..k : f.docs[n].id = n - 1) <=> (\A n \in 1..k : f.files[n].readable)
              /\ \A r \in 1..Len(f.reqs) :
                    f.reqs[r].kind = "PUT_points" =>
                      \A n \in 1..Len(f.reqs[r].pts) :
                        \E i \in 1..k : f.reqs[r].pts[n].id = rp[i]

\* the first of three reads fails: the documents have the ids 1 and 2, and
\* so have the points uploaded
C12_Witness ==
    LET f == cl[1]
    IN  /\ Assembled(f) /\ f.pc = "done" /\ f.result = "ok"
        /\ Len(f.files) = 3 /\ ~f.files[1].readable
        /\ Len(f.docs) = 2 /\ f.docs[1].id = 1 /\ f.docs[2].id = 2
        /\ {q.id : q \in store[f.coll].pts} = {1, 2}

-----------------------------------------------------------------------------
(* C13: a read failure never aborts index_project_files.  Whichever reads  *)
(* fail, every file is read, the documents are the files read              *)
(* successfully, one per file, in the order of the enumeration, and they   *)
(* are handed to index_documents: the call does not end before the         *)
(* existence check of index_documents unless no file could be read.        *)
C13_ReadFailureSkipsFile ==
    \A p \in Procs :
        LET f == cl[p]
            rp == ReadablePositions(f.files)
            k == Len(rp)
            reads == Kinds(f.reqs, "read_file")
        IN  Assembled(f) =>
              /\ Len(reads) = Len(f.files)
              /\ \A i \in 1..Len(reads) :
                    reads[i].text = PathOf(i - 1) /\ (reads[i].out = "ok") = f.files[i].readable
              /\ Len(f.docs) = k
              /\ \A n \in 1..k :
                    /\ f.docs[n].text = f.files[rp[n] + 1].content
                    /\ f.docs[n].metadata =
                          [file_path |-> PathOf(rp[n]), absolute_path |-> AbsolutePathOf(rp[n]),
                           project_name |-> f.name]
              /\ k >= 1 =>
                    \/ f.pc = "idx_exists" /\ Len(f.reqs) = Len(f.files) + 1
                    \/ /\ Len(f.reqs) > Len(f.files) + 1
                       /\ f.reqs[Len(f.files) + 2].kind = "GET_collection"
              /\ k = 0 =>
                    f.pc = "done" /\ f.result = "ok" /\ Len(f.reqs) = Len(f.files) + 1

\* the second of three reads fails: the first and the third file are
\* indexed
C13_Witness ==
    LET f == cl[1]
    IN  /\ Assembled(f) /\ f.pc = "done" /\ f.result = "ok"
        /\ Len(f.files) = 3 /\ f.files[1].readable /\ ~f.files[2].readable /\ f.files[3].readable
        /\ Len(f.docs) = 2
        /\ {q.payload.file_path : q \in store[f.coll].pts \ store0[f.coll].pts} = {PathOf(0), PathOf(2)}

-----------------------------------------------------------------------------
(* C14: with enable_auto_indexing false, index_project_files is a no-op:   *)
(* it enumerates and reads no file, issues no request to the vector store  *)
(* or to the embedding provider, and leaves every collection as it was.    *)
C14_AutoIndexingDisabledNoOp ==
    \A p \in Procs :
        LET f == cl[p]
        IN  (f.op = "index_project_files" /\ ~cfg.enable_auto_indexing) =>
              /\ f.pc = "done" /\ f.result = "ok"
              /\ f.reqs = <<>> /\ f.docs = <<>>
              /\ store = store0

\* three readable files, none read
C14_Witness ==
    LET f == cl[1]
    IN  /\ f.op = "index_project_files" /\ f.pc = "done" /\ ~cfg.enable_auto_indexing
        /\ Len(f.files) = 3 /\ \A k \in 1..3 : f.files[k].readable
        /\ ~store[f.coll].exists

-----------------------------------------------------------------------------
(* C15: container auto-start over a sequence of constructions *)

\* the requests and commands of all the calls of client p, in order
AllReqs(p) == Flatten([k \in 1..Len(hist[p]) |-> hist[p][k].reqs]) \o cl[p].reqs

\* create-and-run is about to be issued only when no container of the
\* configured name exists: when one exists, start is issued, never create
RunOnlyWhenAbsent ==
    \A p \in Procs :
        cl[p].pc = "c_run" => cfg.docker_container_name \notin host.containers

(* C15 as stated: create-and-run is issued only when no container of the   *)
(* configured name exists, and over any sequence of constructions at most  *)
(* one create-and-run is issued.                                           *)
C15_AtMostOneRun ==
    /\ RunOnlyWhenAbsent
    /\ \A p \in Procs : Len(Kinds(AllReqs(p), "docker_run")) <= 1

(* C15 amended: create-and-run is issued only when no container of the     *)
(* configured name exists; over any sequence of constructions at most one  *)
(* create-and-run creates the container, and none is issued after it: a    *)
(* create-and-run is issued again only after one that failed without       *)
(* creating the container.                                                 *)
C15_AtMostOneContainer ==
    /\ RunOnlyWhenAbsent
    /\ \A p \in Procs :
          LET runs == Kinds(AllReqs(p), "docker_run")
          IN  /\ \A k \in 1..(Len(runs) - 1) : runs[k].out \in {"fail", "timeout"}
              /\ (\E k \in 1..Len(runs) : runs[k].out \in {"ok", "fail_created"}) =>
                    cfg.docker_container_name \in host.containers

\* the first construction created the container, the second started it
C15_Witness ==
    /\ Len(hist[1]) = 1 /\ cl[1].op = "__init__" /\ cl[1].pc = "done"
    /\ Len(Kinds(hist[1][1].reqs, "docker_run")) = 1
    /\ Kinds(hist[1][1].reqs, "docker_run")[1].out = "ok"
    /\ Len(Kinds(cl[1].reqs, "docker_start")) = 1
    /\ Kinds(cl[1].reqs, "docker_run") = <<>>
    /\ "redis" \in host.containers

-----------------------------------------------------------------------------
(* C16: the poll for health after a container command *)

\* the position in the log of the container command that succeeded, 0 if
\* there is none
CommandAt(log) ==
    IF \E d \in 1..Len(log) : log[d].kind \in {"docker_start", "docker_run"} /\ log[d].out = "ok"
    THEN CHOOSE d \in 1..Len(log) : log[d].kind \in {"docker_start", "docker_run"} /\ log[d].out = "ok"
    ELSE 0

\* the probes of the poll: the requests after the container command
Polls(log) == IF CommandAt(log) = 0 THEN <<>> ELSE SubSeq(log, CommandAt(log) + 1, Len(log))

Healthy(r) == r.kind = "GET_healthz" /\ r.out = "ok"

PollInvariant ==
    \A p \in Procs :
        LET f == cl[p]
            polls == Polls(f.reqs)
            n == Len(polls)
        IN  (f.op = "__init__" /\ CommandAt(f.reqs) > 0) =>
              \* at most MaxWait probes, one for each second waited
              /\ n <= MaxWait
              /\ \A k \in 1..n : polls[k].kind = "GET_healthz"
              /\ f.pc = "c_poll" => f.waited = n
              \* no probe follows a healthy one, which ends the construction
              /\ \A k \in 1..(n - 1) : ~Healthy(polls[k])
              /\ (n >= 1 /\ Healthy(polls[n])) => (f.pc = "done" /\ f.result = "ok")
              \* the construction succeeds only if a probe was healthy, and fails
              \* only when all the MaxWait probes were not
              /\ (f.pc = "done" /\ f.result = "ok") => (n >= 1 /\ Healthy(polls[n]))
              /\ (f.pc = "done" /\ f.result = "error") =>
                    (n = MaxWait /\ \A k \in 1..n : ~Healthy(polls[k]))

\* a constructed client has seen a healthy probe
ConstructedSawHealthy ==
    \A p \in Procs :
        LET f == cl[p]
        IN  (f.op = "__init__" /\ f.pc = "done" /\ f.result = "ok") =>
              \E k \in 1..Len(f.reqs) : Healthy(f.reqs[k])

(* C16: after a container command succeeded the client probes at most      *)
(* MaxWait times, once for each second; the construction succeeds as soon  *)
(* as and only if a probe is healthy, and fails when all MaxWait probes    *)
(* are not.  A constructed client has seen a healthy probe, and the        *)
(* constructor, once started, ends.                                        *)
C16_PollBoundedAndTerminates ==
    /\ [](PollInvariant /\ ConstructedSawHealthy)
    /\ \A p \in Procs : (cl[p].op = "__init__") ~> (cl[p].pc = "done")

\* the container was created, the service came up during the poll, and the
\* fourth probe was the first healthy one
C16_Witness ==
    LET f == cl[1]
        polls == Polls(f.reqs)
    IN  /\ f.op = "__init__" /\ f.pc = "done" /\ f.result = "ok"
        /\ CommandAt(f.reqs) > 0 /\ f.reqs[CommandAt(f.reqs)].kind = "docker_run"
        /\ Len(polls) = 4 /\ Healthy(polls[4])

-----------------------------------------------------------------------------
(* C17: collections are namespaced per project.  Two controllers of        *)
(* projects of different names derive different collection identities, so  *)
(* no collection holds a point of a project other than its own, and the    *)
(* points a controller has indexed are not overwritten by the other's.     *)
C17_ProjectsAreSeparate ==
    \A p, q \in Procs :
        LET f == cl[p]
            g == cl[q]
        IN  (/\ p # q
             /\ f.op = "index_project_files" /\ g.op = "index_project_files"
             /\ f.name # g.name) =>
              /\ f.coll # g.coll
              /\ \A pt \in store[f.coll].pts : pt.payload.project_name = f.name
              /\ (f.pc = "done" /\ f.result = "ok") =>
                    \A n \in 1..Len(f.docs) :
                        MakePoint(f.docs[n], EmbedOf(f.docs[n].text)) \in store[f.coll].pts

-----------------------------------------------------------------------------
(* C18: the vector-search request carries the limit of the caller whenever *)
(* the caller gives one, and max_search_results of the configuration       *)
(* exactly when the caller gives none; the score threshold it carries is   *)
(* always search_score_threshold of the configuration.                     *)
C18_SearchCarriesLimit ==
    \A p \in Procs :
        LET f == cl[p]
        IN  \A r \in 1..Len(f.reqs) :
              (f.op \in {"search", "search_in_project"} /\ f.reqs[r].kind = "POST_search") =>
                /\ f.reqs[r].limit =
                      (IF f.limit = NoLimit THEN cfg.max_search_results ELSE f.limit[1])
                /\ f.reqs[r].threshold = cfg.search_score_threshold

-----------------------------------------------------------------------------
(* C19: running index_documents again is idempotent.  Whenever a run with  *)
(* a document list succeeds, be it the first run or a run that follows     *)
(* failed (partially applied) or successful runs of the same list on the   *)
(* same collection, the collection holds the points it held before the     *)
(* first run with the points of the list upserted in order: what a single  *)
(* successful run produces (with a negative batch_size a run uploads       *)
(* nothing, and so do the runs that follow).                               *)
C19_RerunIdempotent ==
    \A p \in Procs :
        LET f == cl[p]
        IN  (IndexDone(f) /\ f.result = "ok") =>
              /\ store[f.coll].pts =
                    (IF cfg.batch_size >= 1
                     THEN StoreUpsert(store0[f.coll].pts, PointsOf(f.docs))
                     ELSE store0[f.coll].pts)
              /\ f.docs # <<>> => store[f.coll].exists
              /\ \A m \in 1..Len(hist[p]) :
                    hist[p][m].docs = f.docs /\ hist[p][m].coll = f.coll

\* the first run failed in its second batch, the first batch uploaded; the
\* run that followed succeeded
C19_Witness ==
    LET f == cl[1]
    IN  /\ IndexDone(f) /\ f.result = "ok"
        /\ Len(hist[1]) = 1 /\ hist[1][1].result = "error" /\ hist[1][1].i >= 1
        /\ Len(f.docs) = 2 /\ f.docs[1].id # f.docs[2].id
        /\ store0[f.coll].pts = {OldPoint}
        /\ Cardinality(store[f.coll].pts) = 2

-----------------------------------------------------------------------------
(* C20: the configuration round-trips through its dictionary.  to_dict     *)
(* lists every field with its value; from_dict gives a configuration whose *)
(* fields have the values of the dictionary where it has them and the      *)
(* defaults where it has not, keys that are no fields ignored; so          *)
(* from_dict(to_dict(c)) has the value of c in every field.                *)
C20_ConfigRoundTrip ==
    \A p \in Procs :
        LET f == cl[p]
            h == hist[p]
        IN  /\ (f.op = "to_dict" /\ f.pc = "done") =>
                  /\ DOMAIN f.ret = DOMAIN cfg
                  /\ \A k \in DOMAIN cfg : f.ret[k] = cfg[k]
            /\ (f.op = "from_dict" /\ f.pc = "done") =>
                  /\ DOMAIN f.ret = DOMAIN DefaultConfig
                  /\ \A k \in DOMAIN DefaultConfig :
                        f.ret[k] = (IF k \in DOMAIN f.dict THEN f.dict[k] ELSE DefaultConfig[k])
                  /\ (Len(h) = 1 /\ h[1].op = "to_dict") =>
                        /\ f.dict = h[1].ret
                        /\ \A k \in DOMAIN cfg : f.ret[k] = cfg[k]
                        /\ f.ret = cfg

\* the configuration of the test, auto-indexing off and another dimension,
\* comes back from its dictionary
C20_Witness ==
    LET f == cl[1]
    IN  /\ f.op = "from_dict" /\ f.pc = "done"
        /\ Len(hist[1]) = 1 /\ hist[1][1].op = "to_dict"
        /\ ~cfg.enable_auto_indexing /\ cfg.model_dimension = 768
        /\ f.ret = cfg

-----------------------------------------------------------------------------
(* C21: the lifecycle of a construction *)

\* the frame is in Starting: a container command is about to be issued or
\* was issued
Starting(f) ==
    \/ f.pc \in {"c_list", "c_start", "c_run", "c_poll"}
    \/ \E k \in 1..Len(f.reqs) : f.reqs[k].kind \in DockerKinds

LifecycleInvariant ==
    \A p \in Procs :
        LET f == cl[p]
        IN  f.op = "__init__" =>
              \* Unchecked: nothing but the first probe
              /\ f.pc = "c_probe" <=> f.reqs = <<>>
              /\ f.reqs # <<>> => f.reqs[1].kind = "GET_healthz"
              \* a healthy first probe: Running, without a container command
              /\ (f.reqs # <<>> /\ Healthy(f.reqs[1])) =>
                    /\ f.pc = "done" /\ f.result = "ok"
                    /\ Len(f.reqs) = 1 /\ ~Starting(f)
              \* Starting exactly when auto-start is on and the first probe
              \* was not healthy
              /\ Starting(f) <=>
                    (cfg.enable_auto_start /\ f.reqs # <<>> /\ ~Healthy(f.reqs[1]))
              \* the end: Running or Failed
              /\ f.pc = "done" => f.result \in {"ok", "error"}
              /\ f.pc \in {"c_probe", "c_list", "c_start", "c_run", "c_poll", "done"}

(* C21: from Unchecked a healthy first probe leads to Running with no      *)
(* container command, whatever enable_auto_start is; Starting is entered   *)
(* only when enable_auto_start is true and the first probe was unhealthy;  *)
(* every construction ends, in Running (returned) or in Failed (raised).   *)
C21_Lifecycle ==
    /\ []LifecycleInvariant
    /\ \A p \in Procs :
          (cl[p].op = "__init__") ~> (cl[p].pc = "done" /\ cl[p].result \in {"ok", "error"})

\* auto-start on, a stopped container of the configured name on the host,
\* the first probe healthy: Running, the container not touched
C21_Witness ==
    LET f == cl[1]
    IN  /\ f.op = "__init__" /\ f.pc = "done" /\ f.result = "ok"
        /\ cfg.enable_auto_start /\ cfg.docker_container_name \in host.containers
        /\ f.reqs = <<Probe(TRUE)>> /\ host.running = {}

-----------------------------------------------------------------------------
(* C22: availability is checked at construction only.  Once the            *)
(* constructor has returned, no method of the client (create_collection,   *)
(* index_documents, search, delete_collection and the existence checks and *)
(* embedding requests they make) issues a health probe or a container      *)
(* command, whether the service is up or has gone down.                    *)
C22_NoProbeAfterConstruction ==
    \A p \in Procs :
        LET f == cl[p]
        IN  (f.op \notin {"none", "__init__"}) =>
              /\ Len(hist[p]) = 1 /\ hist[p][1].op = "__init__" /\ hist[p][1].result = "ok"
              /\ \A k \in 1..Len(f.reqs) :
                    f.reqs[k].kind \notin ({"GET_healthz"} \cup DockerKinds)
              /\ f.pc \notin {"c_probe", "c_list", "c_start", "c_run", "c_poll"}

\* the service went down after the construction; index_documents failed on
\* its embedding request without a probe
C22_Witness ==
    LET f == cl[1]
    IN  /\ IndexDone(f) /\ f.result = "error" /\ ~host.up
        /\ Len(hist[1]) = 1 /\ hist[1][1].op = "__init__"
        /\ f.reqs[Len(f.reqs)].kind = "POST_embeddings"
        /\ f.reqs[Len(f.reqs)].out = "transport"

-----------------------------------------------------------------------------
\* the embedding and upsert requests of a log, reduced to what they carry
DataReqs(log) ==
    LET d == SelectSeq(log, LAMBDA r : r.kind \in {"POST_embeddings", "PUT_points"})
    IN  [n \in 1..Len(d) |-> [kind |-> d[n].kind, text |-> d[n].text, pts |-> d[n].pts]]

\* the requests of one chunk: one embedding per document in order, then the upsert
ChunkPlan(ch) ==
    [n \in 1..Len(ch) |-> [kind |-> "POST_embeddings", text |-> ch[n].text, pts |-> <<>>]]
      \o <<[kind |-> "PUT_points", text |-> "", pts |-> PointsOf(ch)]>>

\* the requests of all chunks, chunk after chunk
Planned(docs, B) ==
    LET nch == IF B < 1 THEN 0 ELSE CeilDiv(Len(docs), B)
    IN  Flatten([k \in 1..nch |-> ChunkPlan(Chunk(docs, B, k - 1))])

-----------------------------------------------------------------------------
\* the position of the first embedding or upsert request of a log, 0 if none
FirstData(log) ==
    LET ms == {m \in 1..Len(log) : log[m].kind \in {"POST_embeddings", "PUT_points"}}
    IN  IF ms = {} THEN 0 ELSE CHOOSE m \in ms : \A k \in ms : m <= k

(* C24: index_documents ensures the collection before it sends data.  The  *)
(* first embedding or upsert request of a call directly follows either an  *)
(* existence check that was answered 200 for an existing collection or a   *)
(* create request that succeeded, and the collection exists in the store   *)
(* from then on.  A create request that fails (non-2xx answer or transport *)
(* error) is the last request of the call, which ends with an error and    *)
(* has issued no embedding and no upsert request.                          *)
C24_CollectionEnsuredFirst ==
    \A p \in Procs :
        LET f == cl[p]
            n == Len(f.reqs)
            d == FirstData(f.reqs)
        IN  f.op = "index_documents" =>
              /\ d > 0 =>
                    /\ d > 1
                    /\ f.reqs[d - 1].out = "ok"
                    /\ \/ f.reqs[d - 1].kind = "PUT_collection" /\ ~store0[f.coll].exists
                       \/ f.reqs[d - 1].kind = "GET_collection" /\ store0[f.coll].exists
                    /\ store[f.coll].exists
                    /\ \A m \in d..n : f.reqs[m].kind \in {"POST_embeddings", "PUT_points"}
              /\ \A m \in 1..n :
                    (f.reqs[m].kind = "PUT_collection" /\ f.reqs[m].out # "ok") =>
                      /\ m = n /\ d = 0
                      /\ f.pc = "done" /\ f.result = "error"

\* the collection does not exist and the create request is answered non-2xx:
\* the call fails after two existence checks and the create request
C24_Witness ==
    LET f == cl[1]
    IN  /\ IndexDone(f) /\ f.result = "error" /\ Len(f.docs) = 2
        /\ ~store0[f.coll].exists
        /\ Len(f.reqs) = 3
        /\ f.reqs[1].kind = "GET_collection" /\ f.reqs[2].kind = "GET_collection"
        /\ f.reqs[3].kind = "PUT_collection" /\ f.reqs[3].out = "http_err"
        /\ ~store[f.coll].exists

-----------------------------------------------------------------------------
(* C25: one point per document, carrying the document's own id, the        *)
(* embedding of its text, and a payload whose text field is the document's *)
(* text and which contains every metadata entry of the document.  The k-th *)
(* upsert of a call carries one point for each document of chunk k, in     *)
(* order, and a call that returns normally has uploaded as many points as  *)
(* it was given documents.                                                 *)
C25_PointCarriesDocument ==
    \A p \in Procs :
        LET f == cl[p]
            B == cfg.batch_size
            ups == Kinds(f.reqs, "PUT_points")
        IN  f.op = "index_documents" =>
              /\ \A k \in 1..Len(ups) :
                    LET ch == Chunk(f.docs, B, k - 1)
                    IN  /\ Len(ups[k].pts) = Len(ch)
                        /\ \A n \in 1..Len(ch) :
                              LET pt == ups[k].pts[n]
                                  doc == ch[n]
                              IN  /\ pt.id = doc.id
                                  /\ pt.vector = EmbedOf(doc.text)
                                  /\ pt.payload.text = doc.text
                                  /\ \A key \in DOMAIN doc.metadata :
                                        /\ key \in DOMAIN pt.payload
                                        /\ pt.payload[key] = doc.metadata[key]
              /\ (f.pc = "done" /\ f.result = "ok" /\ B >= 1) =>
                    Len(Flatten([k \in 1..Len(ups) |-> ups[k].pts])) = Len(f.docs)

-----------------------------------------------------------------------------
\* the upserts of a log that the store applied
Applied(log) ==
    SelectSeq(log, LAMBDA r : r.kind = "PUT_points" /\ r.out \in {"ok", "lost"})

RECURSIVE UpsertAll(_, _)
\* the points of a collection after a sequence of upserts
UpsertAll(pts, ups) ==
    IF ups = <<>> THEN pts ELSE UpsertAll(StoreUpsert(pts, Head(ups).pts), Tail(ups))

(* C26: outcomes of index_project_files.  When no file could be read the   *)
(* call returns normally without calling index_documents: it has issued no *)
(* store and no embedding request and the store is unchanged.  When        *)
(* index_documents fails the call ends with that error, and the chunks     *)
(* uploaded before the failure are in the collection.                      *)
C26_ControllerOutcomes ==
    \A p \in Procs :
        LET f == cl[p]
            ups == Kinds(f.reqs, "PUT_points")
        IN  (Assembled(f) /\ f.pc = "done") =>
              /\ f.docs = <<>> =>
                    /\ f.result = "ok" /\ f.inner = "none"
                    /\ f.reqs = ReadLog(f.files)
                    /\ store = store0
              /\ f.docs # <<>> =>
                    /\ f.inner \in {"ok", "error"}
                    /\ f.result = f.inner
                    /\ (\E m \in 1..Len(f.reqs) :
                            /\ f.reqs[m].kind \in {"PUT_collection", "POST_embeddings", "PUT_points"}
                            /\ f.reqs[m].out # "ok") => f.inner = "error"
                    /\ \A k \in 1..Len(ups) :
                          ups[k].out = "ok" =>
                            \A n \in 1..Len(ups[k].pts) : ups[k].pts[n] \in store[f.coll].pts
                    /\ store[f.coll].exists =>
                          store[f.coll].pts = UpsertAll(store0[f.coll].pts, Applied(f.reqs))

\* three files read, batch size 2: the first chunk is uploaded, the
\* embedding of the third document fails, the call ends with the error and
\* the two points are in the collection
C26_Witness ==
    LET f == cl[1]
    IN  /\ Assembled(f) /\ f.pc = "done" /\ f.result = "error" /\ f.inner = "error"
        /\ Len(f.docs) = 3 /\ cfg.batch_size = 2
        /\ f.reqs[Len(f.reqs)].kind = "POST_embeddings"
        /\ store0[f.coll].pts = {}
        /\ {q.id : q \in store[f.coll].pts} = {0, 1}

-----------------------------------------------------------------------------
\* the "docker run" commands of a log
Runs(f) == Kinds(f.reqs, "docker_run")

(* C27: the check for the container and its creation are not serialised    *)
(* between processes.  Two concurrent constructions may both list no       *)
(* container and both issue "docker run" (the witness); the runtime        *)
(* accepts at most one of the two, and a construction whose "docker run"   *)
(* is rejected ends with an error.                                         *)
C27_CreateRace ==
    /\ \A p \in Procs :
          LET f == cl[p]
          IN  f.op = "__init__" =>
                /\ Len(Runs(f)) <= 1
                /\ \A k \in 1..Len(f.reqs) :
                      (f.reqs[k].kind = "docker_run" /\ f.reqs[k].out # "ok") =>
                        /\ k = Len(f.reqs)
                        /\ f.pc = "done" /\ f.result = "error"
    /\ Cardinality({p \in Procs : Runs(cl[p]) # <<>> /\ Runs(cl[p])[1].out = "ok"}) <= 1
    /\ (\A p \in Procs : Runs(cl[p]) # <<>>) =>
          \E p \in Procs : Runs(cl[p])[1].out # "ok"

\* both constructions listed no container and issued "docker run": the
\* first created the container, the second was rejected and failed
C27_Witness ==
    /\ \A p \in Procs :
          /\ cl[p].op = "__init__" /\ Len(cl[p].reqs) >= 3
          /\ cl[p].reqs[2] = Req("docker_ps", "ok")
          /\ cl[p].reqs[3].kind = "docker_run"
    /\ cl[1].reqs[3].out = "ok"
    /\ cl[2].reqs[3].out = "fail"
    /\ cl[2].pc = "done" /\ cl[2].result = "error"
    /\ host.containers = {"qdrant"}

-----------------------------------------------------------------------------
\* the ids of a set of points or of a list of documents
IdsOf(pts) == {q.id : q \in pts}

DocIds(docs) == {docs[n].id : n \in 1..Len(docs)}

\* the second run of the controller ended normally after a first that did
Reindexed(p) ==
    /\ Assembled(cl[p]) /\ cl[p].pc = "done" /\ cl[p].result = "ok"
    /\ hist[p] # <<>> /\ hist[p][1].result = "ok"

\* the point of a list of documents with the given id
PointWithId(docs, id) ==
    LET n == CHOOSE n \in 1..Len(docs) : docs[n].id = id
    IN  MakePoint(docs[n], EmbedOf(docs[n].text))

\* no indexing call issues a delete, and no step of an indexing call
\* removes a collection or the id of a point
IndexingOnlyAdds ==
    /\ [](\A p \in Procs : \A k \in 1..Len(cl[p].reqs) :
             cl[p].reqs[k].kind \notin {"DELETE_collection", "DELETE_points"})
    /\ [][\A c \in DOMAIN store :
             /\ store[c].exists => store'[c].exists
             /\ IdsOf(store[c].pts) \subseteq IdsOf(store'[c].pts)]_vars

(* C28 as stated: indexing never removes data, and after a project whose   *)
(* readable files shrank from n to m < n was indexed again, the points     *)
(* with the ids m..n-1 are those of the first run and the points with the  *)
(* ids 0..m-1 are those of the second.                                     *)
C28_ShrunkProject ==
    /\ IndexingOnlyAdds
    /\ [](\A p \in Procs :
            LET first == hist[p][1].docs
                second == cl[p].docs
                n == Len(first)
                m == Len(second)
                pts == store[cl[p].coll].pts
            IN  (Reindexed(p) /\ m < n) =>
                  /\ \A id \in m..(n - 1) :
                        \E q \in pts : q.id = id /\ \E k \in 1..n : q = PointsOf(first)[k]
                  /\ \A id \in 0..(m - 1) :
                        \E q \in pts : q.id = id /\ \E k \in 1..m : q = PointsOf(second)[k])

(* C28 amended: indexing never removes data, and after a project was       *)
(* indexed again the collection holds, for every id of a document of the   *)
(* second run, the point of that document, and for every id of a document  *)
(* of the first run that no document of the second run has, the point the  *)
(* first run wrote.  The ids of a run are the positions of its readable    *)
(* files in the enumeration, so they are 0..m-1 and 0..n-1 only when no    *)
(* read fails before a file that is read.                                  *)
C28_StalePointsRemain ==
    /\ IndexingOnlyAdds
    /\ [](\A p \in Procs :
            LET first == hist[p][1].docs
                second == cl[p].docs
                pts == store[cl[p].coll].pts
            IN  Reindexed(p) =>
                  /\ IdsOf(pts) = IdsOf(store0[cl[p].coll].pts) \cup DocIds(first) \cup DocIds(second)
                  /\ \A q \in pts :
                        /\ q.id \in DocIds(second) => q = PointWithId(second, q.id)
                        /\ q.id \in DocIds(first) \ DocIds(second) => q = PointWithId(first, q.id)
                  /\ DocIds(second) = {i \in 0..(Len(cl[p].files) - 1) : cl[p].files[i + 1].readable})

\* two files indexed, then the first of them alone: the point 1 of the
\* first run is still in the collection, the point 0 is that of the second
C28_Witness ==
    LET f == cl[1]
    IN  /\ Reindexed(1)
        /\ Len(hist[1][1].files) = 2 /\ Len(hist[1][1].docs) = 2
        /\ Len(f.files) = 1 /\ Len(f.docs) = 1
        /\ hist[1][1].docs[1].text = "alpha beta" /\ f.docs[1].text = "gamma"
        /\ \E q \in store[f.coll].pts : q.id = 0 /\ q.payload.text = "gamma"
        /\ \E q \in store[f.coll].pts : q.id = 1 /\ q = PointWithId(hist[1][1].docs, 1)

-----------------------------------------------------------------------------
(* C29: a normal return of index_documents means that everything was       *)
(* uploaded.  For every batch size and every non-empty list, when the call *)
(* returns normally its upserts all succeeded and their points, one after  *)
(* the other, are the points of the documents of the list: every document  *)
(* is in exactly one upsert.                                               *)
C29_NormalReturnMeansUploaded ==
    \A p \in Procs :
        LET f == cl[p]
            ups == Kinds(f.reqs, "PUT_points")
        IN  (IndexDone(f) /\ f.result = "ok" /\ f.docs # <<>>) =>
              /\ \A k \in 1..Len(ups) : ups[k].out = "ok"
              /\ Flatten([k \in 1..Len(ups) |-> ups[k].pts]) = PointsOf(f.docs)
              /\ \A n \in 1..Len(f.docs) :
                    \E q \in store[f.coll].pts : q.id = f.docs[n].id

-----------------------------------------------------------------------------
(* C30: concurrent indexing of one collection is safe.  When two clients   *)
(* run index_documents concurrently for a collection that does not exist   *)
(* yet, every call that ends has ended without an error, and when both     *)
(* have ended the collection holds a point for every document of both.     *)
C30_ConcurrentIndexingSafe ==
    /\ \A p \in Procs : IndexDone(cl[p]) => cl[p].result = "ok"
    /\ (\A p \in Procs : IndexDone(cl[p])) =>
          \A p \in Procs : \A n \in 1..Len(cl[p].docs) :
            \E q \in store[cl[p].coll].pts : q.id = cl[p].docs[n].id

====
